---------------------------- MODULE Spec2Model ----------------------------
(***************************************************************************)
(* A model of the monkey_lang interpreter: the Pratt parser of             *)
(* src/src/parser.rs and the tree-walking evaluator of src/src/eval.rs     *)
(* with the environments of src/src/object.rs.                             *)
(*                                                                         *)
(* The parser reads a token stream.  The stream is the sequence of tokens  *)
(* Lexer::next_token returns for the input, followed by EOF for ever       *)
(* (lexer.rs:43-45).  Parsing and evaluation are modelled as operators     *)
(* that thread the parser state / the environment exactly as the Rust     *)
(* functions thread `&mut self` / `&mut Environment`; the two loops        *)
(* parse_program and eval_prog are the actions of the state machine, one   *)
(* loop iteration per step.                                                *)
(*                                                                         *)
(* Rust Option<T> is modelled as None or the value itself for nodes, and   *)
(* as None or Some(v) for Option<Vec<_>>.  The `token` fields of the AST   *)
(* nodes are only read by print() and are left out.                        *)
(***************************************************************************)
EXTENDS Integers, Sequences, FiniteSets, TLC

VARIABLES pc, src, par, program, env, trace, result, lex, lexemes

vars == <<pc, src, par, program, env, trace, result, lex, lexemes>>

None == [kind |-> "None"]
Some(v) == [kind |-> "Some", v |-> v]

\* `let v = ...;` followed by the rest of the function body K: K applied to
\* the value bound.
Bind(v, K(_)) == K(v)

-----------------------------------------------------------------------------
(* Tokens (token.rs)                                                       *)

Tok(t, lit) == [type_ |-> t, literal |-> lit]

\* new_token(TokenType::EOF, "\0"): the literal is the NUL character.
EOFTok == Tok("EOF", "NUL")
UndefinedTok == Tok("UNDEFINED", "")

\* impl fmt::Display for TokenType
Display(t) == "TokenType: " \o (IF t = "ASTERICK" THEN "ASTERISK" ELSE t)

-----------------------------------------------------------------------------
(* Precedence levels and tables (parser.rs:17-23, 55-84)                   *)

LOWEST == 0
EQUALS == 1
LESSGREATER == 2
SUM == 3
PRODUCT == 4
PREFIX == 5
CALL == 6

PrecedencesSwapped ==
    "EQ" :> EQUALS @@ "NEQ" :> EQUALS @@ "LT" :> LESSGREATER @@
    "GT" :> LESSGREATER @@ "PLUS" :> PRODUCT @@ "MINUS" :> PRODUCT @@
    "SLASH" :> SUM @@ "ASTERICK" :> SUM @@ "LPAREN" :> CALL

Precedences ==
    "EQ" :> EQUALS @@ "NEQ" :> EQUALS @@ "LT" :> LESSGREATER @@
    "GT" :> LESSGREATER @@ "PLUS" :> SUM @@ "MINUS" :> SUM @@
    "SLASH" :> PRODUCT @@ "ASTERICK" :> PRODUCT @@ "LPAREN" :> CALL

PrefixFns ==
    "IDENT" :> "parse_identifier" @@ "INT" :> "parse_integer_literal" @@
    "BANG" :> "parse_prefix_expr" @@ "MINUS" :> "parse_prefix_expr" @@
    "TRUE" :> "parse_boolean_expr" @@ "FALSE" :> "parse_boolean_expr" @@
    "LPAREN" :> "parse_group_expr" @@ "IF" :> "parse_if_expr" @@
    "FUNCTION" :> "parse_function_literal" @@ "STRING" :> "parse_string"

InfixFns ==
    "PLUS" :> "parse_infix_expr" @@ "MINUS" :> "parse_infix_expr" @@
    "SLASH" :> "parse_infix_expr" @@ "ASTERICK" :> "parse_infix_expr" @@
    "EQ" :> "parse_infix_expr" @@ "NEQ" :> "parse_infix_expr" @@
    "LT" :> "parse_infix_expr" @@ "GT" :> "parse_infix_expr" @@
    "LPAREN" :> "parse_call"

-----------------------------------------------------------------------------
(* AST nodes (ast.rs)                                                      *)

LetStatement(name, value) ==
    [kind |-> "LetStatement", name |-> name, value |-> value]
ReturnStatement(value) == [kind |-> "ReturnStatement", value |-> value]
ExpressionStatement(expr) == [kind |-> "ExpressionStatement", expr |-> expr]
BlockStatement(statements) ==
    [kind |-> "BlockStatement", statements |-> statements]

Identifier(value) == [kind |-> "Identifier", value |-> value]
IntegerLiteral(value) == [kind |-> "IntegerLiteral", value |-> value]
StringLiteral(value) == [kind |-> "StringLiteral", value |-> value]
Boolean(value) == [kind |-> "Boolean", value |-> value]
PrefixExpression(operator, right) ==
    [kind |-> "PrefixExpression", operator |-> operator, right |-> right]
InfixExpression(operator, left, right) ==
    [kind |-> "InfixExpression", operator |-> operator, left |-> left,
     right |-> right]
IfExpression(cond, consequence, alternative) ==
    [kind |-> "IfExpression", cond |-> cond, consequence |-> consequence,
     alternative |-> alternative]
FunctionLiteral(parameters, body) ==
    [kind |-> "FunctionLiteral", parameters |-> parameters, body |-> body]
CallExpression(func, args) ==
    [kind |-> "CallExpression", func |-> func, args |-> args]

-----------------------------------------------------------------------------
(* Parser state (parser.rs:25-33).  toks/rp stand for the lexer: rp tokens *)
(* have been read from it.  abort is set when the parser panics (todo!()). *)
(* fails is a history of the failed expect_peek calls: the function that   *)
(* made the call, the kinds wanted and got, the messages appended and the  *)
(* tokens consumed by the call, and whether that function returned a node. *)

\* Lexer::next_token seen from the parser: the next token of the input, and
\* EOF once the input is used up.
LexNextToken(toks, rp) == IF rp < Len(toks) THEN toks[rp + 1] ELSE EOFTok

NextToken(p) ==
    [p EXCEPT !.cur = p.peek,
              !.peek = LexNextToken(p.toks, p.rp),
              !.rp = IF p.rp < Len(p.toks) THEN p.rp + 1 ELSE p.rp]

ParserNew(toks) ==
    NextToken(NextToken(
        [toks |-> toks, rp |-> 0, cur |-> UndefinedTok, peek |-> UndefinedTok,
         errors |-> <<>>, abort |-> FALSE, fails |-> <<>>]))

CurTokenIs(p, t) == p.cur.type_ = t
PeekTokenIs(p, t) == p.peek.type_ = t

PeekError(p, t) ==
    [p EXCEPT !.errors = Append(@,
        "expected next token to be " \o Display(t) \o ", got "
            \o Display(p.peek.type_))]

\* expect_peek: the parser state after the call, and the bool it returns.
ExpectPeek(p, t) ==
    IF PeekTokenIs(p, t)
    THEN [p |-> NextToken(p), ok |-> TRUE]
    ELSE [p |-> PeekError(p, t), ok |-> FALSE]

\* History only: the failed expect_peek(t) that took p0 to p1, made by
\* function fn, which then returned a node (returned) or None.
NoteFail(p1, p0, fn, t, returned) ==
    [p1 EXCEPT !.fails = Append(@,
        [fn |-> fn, want |-> t, got |-> p0.peek.type_,
         msgs |-> SubSeq(p1.errors, Len(p0.errors) + 1, Len(p1.errors)),
         consumed |-> p1.rp - p0.rp,
         moved |-> (p1.cur # p0.cur \/ p1.peek # p0.peek),
         returned |-> returned])]

PrecedenceOf(table, t) == IF t \in DOMAIN table THEN table[t] ELSE LOWEST

PeekPrecedence(p) == PrecedenceOf(Precedences, p.peek.type_)
CurPrecedence(p) == PrecedenceOf(Precedences, p.cur.type_)

\* str::parse::<i64> on the literals of the INT tokens of the inputs: the
\* value of a decimal numeral, and an error for a numeral above i64::MAX.
I64Numerals ==
    [n \in {"0", "1", "2", "3", "4", "5", "7", "10", "15", "20", "40"} |->
        CASE n = "0" -> 0 [] n = "1" -> 1 [] n = "2" -> 2 [] n = "3" -> 3
          [] n = "4" -> 4 [] n = "5" -> 5 [] n = "7" -> 7 [] n = "10" -> 10
          [] n = "15" -> 15 [] n = "20" -> 20 [] n = "40" -> 40]
TooBigNumeral == "9223372036854775808"
ParseI64(lit) ==
    IF lit \in DOMAIN I64Numerals
    THEN [ok |-> TRUE, v |-> I64Numerals[lit]]
    ELSE [ok |-> FALSE, v |-> "number too large to fit in target type"]

-----------------------------------------------------------------------------
(* The parser's functions.  Each returns [p |-> the parser state after the *)
(* call, node |-> what the function returns].                              *)

\* parse_expression and parse_statement call each other through the
\* productions.  Every such call is written parse_expression(p, prec) /
\* parse_statement(p) and goes through the one recursive operator Parse,
\* defined after the productions, which dispatches on the function's name.
RECURSIVE Parse(_, _, _)
parse_expression(p, prec) == Parse("parse_expression", p, prec)
parse_statement(p) == Parse("parse_statement", p, LOWEST)

RECURSIVE BlockLoop(_, _), InfixLoop(_, _, _), CallArgumentsLoop(_, _)

ParseIdentifier(p) == [p |-> p, node |-> Identifier(p.cur.literal)]

ParseIntegerLiteral(p) ==
    Bind(ParseI64(p.cur.literal), LAMBDA val :
    IF val.ok
    THEN [p |-> p, node |-> IntegerLiteral(val.v)]
    ELSE [p |-> [p EXCEPT !.errors = Append(@,
                    "could not parse " \o p.cur.literal
                        \o " as integer. " \o val.v)],
          node |-> None])

ParseString(p) == [p |-> p, node |-> StringLiteral(p.cur.literal)]

ParseBoolean(p) == [p |-> p, node |-> Boolean(CurTokenIs(p, "TRUE"))]

ParsePrefixExpression(p) ==
    Bind(parse_expression(NextToken(p), PREFIX), LAMBDA s :
    [p |-> s.p, node |-> PrefixExpression(p.cur.literal, s.node)])

ParseGroupExpression(p) ==
    Bind(parse_expression(NextToken(p), LOWEST), LAMBDA exp :
    Bind(ExpectPeek(exp.p, "RPAREN"), LAMBDA e :
    IF ~e.ok
    THEN [p |-> NoteFail(e.p, exp.p, "parse_group_expression", "RPAREN",
                         FALSE),
          node |-> None]
    ELSE [p |-> e.p, node |-> exp.node]))

\* The while loop of parse_block_statement; stmts are the statements pushed
\* so far.
BlockLoop(p, stmts) ==
    IF ~CurTokenIs(p, "RBRACE") /\ ~CurTokenIs(p, "EOF")
    THEN Bind(parse_statement(p), LAMBDA stmt :
         BlockLoop(NextToken(stmt.p),
                   IF stmt.node # None THEN Append(stmts, stmt.node)
                   ELSE stmts))
    ELSE [p |-> p, node |-> BlockStatement(stmts)]

ParseBlockStatement(p) == BlockLoop(NextToken(p), <<>>)

\* The else branch of parse_if_expression (parser.rs:515-528), entered with
\* the peek token ELSE; con and conseq are the parts already parsed.
ParseElseBranch(p, con, conseq) ==
    Bind(NextToken(p), LAMBDA pe :
    Bind(ExpectPeek(pe, "LBRACE"), LAMBDA e4 :
    IF ~e4.ok
    THEN \* return Some(exp)
         [p |-> NoteFail(e4.p, pe, "parse_if_expression", "LBRACE", TRUE),
          node |-> IfExpression(con, conseq, None)]
    ELSE Bind(ParseBlockStatement(e4.p), LAMBDA alt :
         [p |-> alt.p, node |-> IfExpression(con, conseq, alt.node)])))

ParseIfExpression(p) ==
    Bind(ExpectPeek(p, "LPAREN"), LAMBDA e1 :
    IF ~e1.ok
    THEN [p |-> NoteFail(e1.p, p, "parse_if_expression", "LPAREN", FALSE),
          node |-> None]
    ELSE
    Bind(parse_expression(NextToken(e1.p), LOWEST), LAMBDA con :
    IF con.node = None
    THEN \* None => todo!(): the parser panics
         [p |-> [con.p EXCEPT !.abort = TRUE], node |-> None]
    ELSE
    Bind(ExpectPeek(con.p, "RPAREN"), LAMBDA e2 :
    IF ~e2.ok
    THEN [p |-> NoteFail(e2.p, con.p, "parse_if_expression", "RPAREN", FALSE),
          node |-> None]
    ELSE
    Bind(ExpectPeek(e2.p, "LBRACE"), LAMBDA e3 :
    IF ~e3.ok
    THEN [p |-> NoteFail(e3.p, e2.p, "parse_if_expression", "LBRACE", FALSE),
          node |-> None]
    ELSE
    Bind(ParseBlockStatement(e3.p), LAMBDA conseq :
    IF PeekTokenIs(conseq.p, "ELSE")
    THEN ParseElseBranch(conseq.p, con.node, conseq.node)
    ELSE [p |-> conseq.p,
          node |-> IfExpression(con.node, conseq.node, None)])))))

ParseInfixExpression(p, left) ==
    Bind(p.cur.literal, LAMBDA operator :
    Bind(IF operator = "+" THEN CurPrecedence(p) - 1 ELSE CurPrecedence(p),
         LAMBDA prc :
    Bind(parse_expression(NextToken(p), prc), LAMBDA stmt :
    IF stmt.node # None
    THEN [p |-> stmt.p,
          node |-> InfixExpression(operator, left, stmt.node)]
    ELSE [p |-> stmt.p, node |-> None])))

\* The `while self.peek_token_is(COMMA)` loop of parse_function_parameters.
RECURSIVE FunctionParametersLoop(_, _)
FunctionParametersLoop(p, ident) ==
    IF PeekTokenIs(p, "COMMA")
    THEN Bind(NextToken(NextToken(p)), LAMBDA p2 :
         FunctionParametersLoop(p2,
             Append(ident, Identifier(p2.cur.literal))))
    ELSE [p |-> p, idents |-> ident]

ParseFunctionParameters(p) ==
    IF PeekTokenIs(p, "RPAREN")
    THEN [p |-> NextToken(p), node |-> Some(<<>>)]
    ELSE Bind(NextToken(p), LAMBDA p1 :
         Bind(FunctionParametersLoop(p1, <<Identifier(p1.cur.literal)>>),
              LAMBDA l :
         Bind(ExpectPeek(l.p, "RPAREN"), LAMBDA e :
         IF ~e.ok
         THEN [p |-> NoteFail(e.p, l.p, "parse_function_parameters",
                              "RPAREN", FALSE),
               node |-> None]
         ELSE [p |-> e.p, node |-> Some(l.idents)])))

ParseFunctionExpression(p) ==
    Bind(ExpectPeek(p, "LPAREN"), LAMBDA e1 :
    IF ~e1.ok
    THEN [p |-> NoteFail(e1.p, p, "parse_function_expression", "LPAREN",
                         FALSE),
          node |-> None]
    ELSE
    Bind(ParseFunctionParameters(e1.p), LAMBDA par_ :
    Bind(ExpectPeek(par_.p, "LBRACE"), LAMBDA e2 :
    IF ~e2.ok
    THEN [p |-> NoteFail(e2.p, par_.p, "parse_function_expression",
                         "LBRACE", FALSE),
          node |-> None]
    ELSE
    Bind(ParseBlockStatement(e2.p), LAMBDA bod :
    [p |-> bod.p, node |-> FunctionLiteral(par_.node, bod.node)]))))

\* The `while self.peek_token_is(COMMA)` loop of parse_call_arguments;
\* ok is FALSE when an argument failed to parse (return None).
CallArgumentsLoop(p, arg) ==
    IF PeekTokenIs(p, "COMMA")
    THEN Bind(parse_expression(NextToken(NextToken(p)), LOWEST), LAMBDA ag :
         IF ag.node # None
         THEN CallArgumentsLoop(ag.p, Append(arg, ag.node))
         ELSE [p |-> ag.p, ok |-> FALSE, arg |-> arg])
    ELSE [p |-> p, ok |-> TRUE, arg |-> arg]

ParseCallArguments(p) ==
    IF PeekTokenIs(p, "RPAREN")
    THEN [p |-> NextToken(p), node |-> Some(<<>>)]
    ELSE
    Bind(parse_expression(NextToken(p), LOWEST), LAMBDA ag :
    IF ag.node = None
    THEN [p |-> ag.p, node |-> None]
    ELSE
    Bind(CallArgumentsLoop(ag.p, <<ag.node>>), LAMBDA l :
    IF ~l.ok
    THEN [p |-> l.p, node |-> None]
    ELSE
    Bind(ExpectPeek(l.p, "RPAREN"), LAMBDA e :
    IF ~e.ok
    THEN [p |-> NoteFail(e.p, l.p, "parse_call_arguments", "RPAREN", FALSE),
          node |-> None]
    ELSE [p |-> e.p, node |-> Some(l.arg)])))

ParseCallExpression(p, func) ==
    Bind(ParseCallArguments(p), LAMBDA arguments :
    [p |-> arguments.p, node |-> CallExpression(func, arguments.node)])

\* The prefix function registered for token type t, "none" if there is none.
PrefixFnOf(t) == IF t \in DOMAIN PrefixFns THEN PrefixFns[t] ELSE "none"
\* The infix function registered for token type t, "none" if there is none.
InfixFnOf(t) == IF t \in DOMAIN InfixFns THEN InfixFns[t] ELSE "none"

\* The call of the prefix function fun made by parse_expression
\* (parser.rs:284-364).
CallPrefixFn(fun, p) ==
    CASE fun = "parse_identifier" -> ParseIdentifier(p)
      [] fun = "parse_integer_literal" -> ParseIntegerLiteral(p)
      [] fun = "parse_prefix_expr" -> ParsePrefixExpression(p)
      [] fun = "parse_boolean_expr" -> ParseBoolean(p)
      [] fun = "parse_group_expr" -> ParseGroupExpression(p)
      [] fun = "parse_if_expr" -> ParseIfExpression(p)
      [] fun = "parse_function_literal" -> ParseFunctionExpression(p)
      [] fun = "parse_string" -> ParseString(p)

\* The call of the infix function inx made in the loop of parse_expression
\* (parser.rs:372-389), the parser being on the operator token.
CallInfixFn(inx, p, left_expr) ==
    CASE inx = "parse_infix_expr" -> ParseInfixExpression(p, left_expr)
      [] inx = "parse_call" -> ParseCallExpression(p, left_expr)

\* The while loop of parse_expression (parser.rs:366-393).
InfixLoop(p, left_expr, prec) ==
    IF ~PeekTokenIs(p, "SEMICOLON") /\ prec < PeekPrecedence(p)
    THEN IF InfixFnOf(p.peek.type_) = "none"
         THEN \* None => (): the loop spins without consuming a token
              [p |-> [p EXCEPT !.abort = TRUE], node |-> None]
         ELSE Bind(CallInfixFn(InfixFnOf(p.peek.type_), NextToken(p),
                               left_expr),
                   LAMBDA ex :
              IF ex.node # None
              THEN InfixLoop(ex.p, ex.node, prec)
              ELSE [p |-> ex.p, node |-> None])
    ELSE [p |-> p, node |-> left_expr]

ParseExpression(p, prec) ==
    IF PrefixFnOf(p.cur.type_) = "none"
    THEN [p |-> p, node |-> None]
    ELSE Bind(CallPrefixFn(PrefixFnOf(p.cur.type_), p), LAMBDA pre :
         InfixLoop(pre.p, pre.node, prec))

\* The semicolon after the expression is left where it is
SkipSemicolonNever(p) == p

\* `if self.peek_token_is(SEMICOLON) { self.next_token() }`
SkipSemicolon(p) == IF PeekTokenIs(p, "SEMICOLON") THEN NextToken(p) ELSE p

ParseLetStatement(p) ==
    Bind(ExpectPeek(p, "IDENT"), LAMBDA e1 :
    IF ~e1.ok
    THEN [p |-> NoteFail(e1.p, p, "parse_let_statement", "IDENT", FALSE),
          node |-> None]
    ELSE
    Bind(ExpectPeek(e1.p, "ASSIGN"), LAMBDA e2 :
    IF ~e2.ok
    THEN [p |-> NoteFail(e2.p, e1.p, "parse_let_statement", "ASSIGN", FALSE),
          node |-> None]
    ELSE
    Bind(parse_expression(NextToken(e2.p), LOWEST), LAMBDA expr :
    [p |-> SkipSemicolon(expr.p),
     node |-> LetStatement(Identifier(e1.p.cur.literal), expr.node)])))

ParseReturnStatement(p) ==
    Bind(NextToken(p), LAMBDA p1 :
    IF CurTokenIs(p1, "SEMICOLON")
    THEN [p |-> p1, node |-> ReturnStatement(None)]
    ELSE Bind(parse_expression(p1, LOWEST), LAMBDA right_expr :
         [p |-> SkipSemicolon(right_expr.p),
          node |-> ReturnStatement(right_expr.node)]))

ParseExpressionStatementAtLowest(p) ==
    Bind(parse_expression(p, LOWEST), LAMBDA st :
    [p |-> SkipSemicolon(st.p), node |-> ExpressionStatement(st.node)])

ParseExpressionStatement(p) ==
    Bind(PrecedenceOf(Precedences, p.cur.type_), LAMBDA precedence :
    Bind(parse_expression(p, precedence), LAMBDA st :
    [p |-> SkipSemicolon(st.p), node |-> ExpressionStatement(st.node)]))

ParseStatement(p) ==
    CASE p.cur.type_ = "LET" -> ParseLetStatement(p)
      [] p.cur.type_ = "RETURN" -> ParseReturnStatement(p)
      [] OTHER -> ParseExpressionStatement(p)

------------------------------------------------------------------------

Parse(fn, p, prec) ==
    CASE fn = "parse_expression" -> ParseExpression(p, prec)
      [] fn = "parse_statement" -> ParseStatement(p)

-----
(* Objects and environments (object.rs)                                    *)

ObjInteger(v) == [type |-> "INTEGER_OBJ", v |-> v]
ObjBoolean(v) == [type |-> "BOOLEAN_OBJ", v |-> v]
ObjNull == [type |-> "NULL"]
ObjReturn(v) == [type |-> "RETURN_VALUE_OBJ", v |-> v]
ObjError(msg) == [type |-> "ERROR", msg |-> msg]
ObjFunction(parameters, body, e) ==
    [type |-> "FUNCTION", parameters |-> parameters, body |-> body, env |-> e]
ObjString(v) == [type |-> "STRING", v |-> v]

\* Object::type_
Type(obj) == obj.type

NewEnvironment == [store |-> <<>>, outer |-> None]

\* Environment::new_enclosed
NewEnclosed(envir) == [store |-> <<>>, outer |-> envir]

\* Environment::get: the object bound to name, or None
RECURSIVE EnvGet(_, _)
EnvGet(e, name) ==
    IF name \in DOMAIN e.store THEN e.store[name]
    ELSE IF e.outer # None THEN EnvGet(e.outer, name)
    ELSE None

\* A set that writes into the enclosing environment when there is one
EnvSetInOuter(e, name, obj) ==
    IF e.outer = None THEN [e EXCEPT !.store = (name :> obj) @@ @]
    ELSE [e EXCEPT !.outer.store = (name :> obj) @@ @]

\* Environment::set
EnvSet(e, name, obj) == [e EXCEPT !.store = (name :> obj) @@ @]

-----------------------------------------------------------------------------
(* The evaluator (eval.rs).  Each function that takes `&mut Environment`   *)
(* returns [obj |-> the object returned, env |-> the environment after the *)
(* call, abort |-> TRUE when the call panicked].  The integers of the      *)
(* inputs are small: no i64 operation of the model overflows.              *)

Ret(obj, e) == [obj |-> obj, env |-> e, abort |-> FALSE]
Panic(e) == [obj |-> ObjNull, env |-> e, abort |-> TRUE]

IsError(obj) == Type(obj) = "ERROR"

\* Truthiness in which every object but false and Null counts as true
IsTruthyNotFalse(obj) ==
    /\ Type(obj) # "NULL"
    /\ Type(obj) = "BOOLEAN_OBJ" => obj.v

IsTruthy(obj) == Type(obj) = "BOOLEAN_OBJ" /\ obj.v

EvalBangOper(obj) ==
    CASE Type(obj) = "BOOLEAN_OBJ" -> ObjBoolean(~obj.v)
      [] Type(obj) = "NULL" -> ObjBoolean(TRUE)
      [] OTHER -> ObjBoolean(FALSE)

EvalMinusOper(obj) ==
    IF Type(obj) = "INTEGER_OBJ" THEN ObjInteger(-obj.v)
    ELSE ObjError("Don't know yet")

EvalPrefix(oper, right) ==
    CASE oper = "!" -> EvalBangOper(right)
      [] oper = "-" -> EvalMinusOper(right)
      [] OTHER -> ObjError("unknown operator: " \o oper \o " " \o Type(right))

\* i64 division truncates toward zero
TruncDiv(a, b) ==
    LET q == (IF a < 0 THEN -a ELSE a) \div (IF b < 0 THEN -b ELSE b)
    IN  IF (a < 0) = (b < 0) THEN q ELSE -q

\* eval_integer_infix; abort: the division panics on a zero divisor
EvalIntegerInfix(oper, left, right) ==
    LET l == left.v
        r == right.v
    IN  CASE oper = "+" -> [obj |-> ObjInteger(l + r), abort |-> FALSE]
          [] oper = "-" -> [obj |-> ObjInteger(l - r), abort |-> FALSE]
          [] oper = "*" -> [obj |-> ObjInteger(l * r), abort |-> FALSE]
          [] oper = "/" ->
                IF r = 0 THEN [obj |-> ObjNull, abort |-> TRUE]
                ELSE [obj |-> ObjInteger(TruncDiv(l, r)), abort |-> FALSE]
          [] oper = "<" -> [obj |-> ObjBoolean(l < r), abort |-> FALSE]
          [] oper = ">" -> [obj |-> ObjBoolean(l > r), abort |-> FALSE]
          [] oper = "==" -> [obj |-> ObjBoolean(l = r), abort |-> FALSE]
          [] oper = "!=" -> [obj |-> ObjBoolean(l # r), abort |-> FALSE]
          [] OTHER ->
                [obj |-> ObjError("unknown operator: " \o Type(left) \o " "
                                    \o oper \o " " \o Type(right)),
                 abort |-> FALSE]

EvalStringInfix(oper, left, right) ==
    IF oper # "+"
    THEN ObjError("unknown operator: " \o Type(left) \o " " \o oper \o " "
                    \o Type(right))
    ELSE ObjString(left.v \o right.v)

EvalInfixExpr(oper, left, right) ==
    IF Type(left) = "INTEGER_OBJ" /\ Type(right) = "INTEGER_OBJ"
    THEN EvalIntegerInfix(oper, left, right)
    ELSE IF Type(left) = "STRING" /\ Type(right) = "STRING"
    THEN [obj |-> EvalStringInfix(oper, left, right), abort |-> FALSE]
    ELSE [obj |-> ObjError("type mismatch: " \o Type(left) \o " "
                             \o Type(right)),
          abort |-> FALSE]

EvalIdentifier(ident, e) ==
    LET check == EnvGet(e, ident.value)
    IN  IF check # None THEN check
        ELSE ObjError("identifier not found: " \o ident.value)

UnwrapReturnValue(obj) ==
    IF Type(obj) = "RETURN_VALUE_OBJ" THEN obj.v ELSE obj

\* The for loop of extended_func_env over parameters[index..]; abort:
\* args[index] panics when fewer arguments than parameters were passed.
\* Every parameter the parser builds is an Identifier (parser.rs:642-653).
RECURSIVE SetParameters(_, _, _, _)
SetParameters(parameters, args, envex, index) ==
    IF index > Len(parameters) THEN [env |-> envex, abort |-> FALSE]
    ELSE IF index > Len(args) THEN [env |-> envex, abort |-> TRUE]
    ELSE SetParameters(parameters, args,
                       EnvSet(envex, parameters[index].value, args[index]),
                       index + 1)

ExtendedFuncEnvDynamic(fun, args, e) ==
    SetParameters(fun.parameters, args, NewEnclosed(e), 1)

\* extended_func_env enclosing an empty environment in place of func.env
ExtendedFuncEnvNoCapture(fun, args, e) ==
    SetParameters(fun.parameters, args, NewEnclosed(NewEnvironment), 1)

\* extended_func_env: env.new_enclosed(func.env) ignores env
ExtendedFuncEnv(fun, args, e) ==
    SetParameters(fun.parameters, args, NewEnclosed(fun.env), 1)

\* eval and eval_expr call each other through the arms of their matches.
\* Every such call is written eval(state, e) / eval_expr(expr, e) and goes
\* through the one recursive operator Evaluate, defined after them, which
\* dispatches on the function's name.
RECURSIVE Evaluate(_, _, _)
eval(state, e) == Evaluate("eval", state, e)
eval_expr(expr, e) == Evaluate("eval_expr", expr, e)

\* `match opt { Some(x) => eval_expr(*x, env), None => dflt }`
EvalExprOr(opt, dflt, e) ==
    IF opt = None THEN Ret(dflt, e) ELSE eval_expr(opt, e)

RECURSIVE BlockStatements(_, _, _), EvalExprsLoop(_, _, _, _)
RECURSIVE EvalExprsLoopNoStop(_, _, _, _)

\* eval_ret
EvalRet(ret, e) ==
    IF ret.value = None THEN Ret(ObjNull, e)
    ELSE Bind(eval_expr(ret.value, e), LAMBDA val :
         IF val.abort THEN val ELSE Ret(ObjReturn(val.obj), val.env))

\* The for loop of eval_block over statements[i..]; the function returns
\* the outer `val`, which is Null (the loop's `val` shadows it).
BlockStatements(statements, i, e) ==
    IF i > Len(statements) THEN Ret(ObjNull, e)
    ELSE Bind(eval(statements[i], e), LAMBDA v :
         IF v.abort THEN v
         ELSE IF Type(v.obj) # "NULL"
                 /\ (Type(v.obj) = "RETURN_VALUE_OBJ"
                     \/ Type(v.obj) = "ERROR")
         THEN v
         ELSE BlockStatements(statements, i + 1, v.env))

EvalBlock(block, e) == BlockStatements(block.statements, 1, e)

EvalExpressionStmt(expr, e) == EvalExprOr(expr.expr, ObjNull, e)

\* eval_exprs without the early return: the expressions after the first
\* Error are evaluated too, and then the first Error is returned.
EvalExprsLoopNoStop(exps, i, result_, e) ==
    IF i > Len(exps) THEN [objs |-> result_, abort |-> FALSE]
    ELSE Bind(eval_expr(exps[i], e), LAMBDA evaluated :
         IF evaluated.abort THEN [objs |-> result_, abort |-> TRUE]
         ELSE Bind(EvalExprsLoopNoStop(exps, i + 1,
                                       Append(result_, evaluated.obj), e),
                   LAMBDA rest :
              IF rest.abort \/ ~IsError(evaluated.obj) THEN rest
              ELSE [objs |-> <<evaluated.obj>>, abort |-> FALSE]))

\* The for loop of eval_exprs over exps[i..]: every expression is evaluated
\* in a clone of env of its own; abort when one of them panics.
EvalExprsLoop(exps, i, result_, e) ==
    IF i > Len(exps) THEN [objs |-> result_, abort |-> FALSE]
    ELSE Bind(eval_expr(exps[i], e), LAMBDA evaluated :
         IF evaluated.abort THEN [objs |-> result_, abort |-> TRUE]
         ELSE IF IsError(evaluated.obj)
         THEN [objs |-> <<evaluated.obj>>, abort |-> FALSE]
         ELSE EvalExprsLoop(exps, i + 1, Append(result_, evaluated.obj), e))

EvalExprs(exps, e) == EvalExprsLoop(exps, 1, <<>>, e)

\* apply_function handing the environment of the call back to the caller
ApplyFunctionLeaky(fun, args, e) ==
    IF Type(fun) = "FUNCTION"
    THEN Bind(ExtendedFuncEnv(fun, args, e), LAMBDA extended :
         IF extended.abort THEN Panic(e)
         ELSE Bind(EvalBlock(fun.body, extended.env), LAMBDA evaluated :
              IF evaluated.abort THEN Panic(e)
              ELSE Ret(UnwrapReturnValue(evaluated.obj), evaluated.env)))
    ELSE Ret(ObjError("not a function: " \o Type(fun)), e)

\* apply_function: the caller's environment is not changed.
ApplyFunction(fun, args, e) ==
    IF Type(fun) = "FUNCTION"
    THEN Bind(ExtendedFuncEnv(fun, args, e), LAMBDA extended :
         IF extended.abort THEN Panic(e)
         ELSE Bind(EvalBlock(fun.body, extended.env), LAMBDA evaluated :
              IF evaluated.abort THEN Panic(e)
              ELSE Ret(UnwrapReturnValue(evaluated.obj), e)))
    ELSE Ret(ObjError("not a function: " \o Type(fun)), e)

\* eval_if_expr with the blocks evaluated in an environment of their own,
\* enclosed in env and dropped afterwards
EvalIfExprScoped(expr, e) ==
    Bind(EvalExprOr(expr.cond, ObjNull, e), LAMBDA cond :
    IF cond.abort \/ IsError(cond.obj) THEN cond
    ELSE IF IsTruthy(cond.obj)
    THEN IF expr.consequence = None THEN Ret(ObjNull, cond.env)
         ELSE Bind(eval(expr.consequence, NewEnclosed(cond.env)),
                   LAMBDA cons : [cons EXCEPT !.env = cond.env])
    ELSE IF expr.alternative = None THEN Ret(ObjNull, cond.env)
         ELSE Bind(eval(expr.alternative, NewEnclosed(cond.env)),
                   LAMBDA alt : [alt EXCEPT !.env = cond.env]))

\* eval_if_expr
EvalIfExpr(expr, e) ==
    Bind(EvalExprOr(expr.cond, ObjNull, e), LAMBDA cond :
    IF cond.abort \/ IsError(cond.obj) THEN cond
    ELSE IF IsTruthy(cond.obj)
    THEN IF expr.consequence = None THEN Ret(ObjNull, cond.env)
         ELSE eval(expr.consequence, cond.env)
    ELSE IF expr.alternative = None THEN Ret(ObjNull, cond.env)
         ELSE eval(expr.alternative, cond.env))

\* The FunctionLiteral arm of eval_expr with `env: Environment::new()`
\* in place of `env: env.clone()`
EvalFunctionLiteralNoEnv(x, e) ==
    IF x.body = None
    THEN ObjError("expected statement but got something else")
    ELSE IF x.body.kind # "BlockStatement"
    THEN ObjError("not a block statement")
    ELSE ObjFunction(IF x.parameters = None THEN <<>> ELSE x.parameters.v,
                     x.body, NewEnvironment)

\* The FunctionLiteral arm of eval_expr (eval.rs:143-164)
EvalFunctionLiteral(x, e) ==
    IF x.body = None
    THEN ObjError("expected statement but got something else")
    ELSE IF x.body.kind # "BlockStatement"
    THEN ObjError("not a block statement")
    ELSE ObjFunction(IF x.parameters = None THEN <<>> ELSE x.parameters.v,
                     x.body, e)

\* The CallExpression arm of eval_expr (eval.rs:165-186)
EvalCallExpression(x, e) ==
    Bind(EvalExprOr(x.func, ObjError("expected function got something else"),
                    e),
         LAMBDA function :
    IF function.abort \/ IsError(function.obj) THEN function
    ELSE
    Bind(EvalExprs(IF x.args = None THEN <<>> ELSE x.args.v, function.env),
         LAMBDA args :
    IF args.abort THEN Panic(function.env)
    ELSE IF Len(args.objs) = 1 /\ IsError(args.objs[1])
    THEN Ret(args.objs[1], function.env)
    ELSE ApplyFunction(function.obj, args.objs, function.env)))

\* The PrefixExpression arm of eval_expr (eval.rs:105-115)
EvalPrefixExpression(x, e) ==
    Bind(EvalExprOr(x.right, ObjNull, e), LAMBDA right :
    IF right.abort \/ IsError(right.obj) THEN right
    ELSE Ret(EvalPrefix(x.operator, right.obj), right.env))

\* The InfixExpression arm of eval_expr (eval.rs:116-134)
EvalInfixExpression(x, e) ==
    Bind(EvalExprOr(x.left, ObjNull, e), LAMBDA left :
    IF left.abort \/ IsError(left.obj) THEN left
    ELSE
    Bind(EvalExprOr(x.right, ObjNull, left.env), LAMBDA right :
    IF right.abort \/ IsError(right.obj) THEN right
    ELSE
    Bind(EvalInfixExpr(x.operator, left.obj, right.obj), LAMBDA res :
    IF res.abort THEN Panic(right.env) ELSE Ret(res.obj, right.env))))

EvalExpr(expr, e) ==
    CASE expr.kind = "Identifier" -> Ret(EvalIdentifier(expr, e), e)
      [] expr.kind = "IntegerLiteral" -> Ret(ObjInteger(expr.value), e)
      [] expr.kind = "PrefixExpression" -> EvalPrefixExpression(expr, e)
      [] expr.kind = "InfixExpression" -> EvalInfixExpression(expr, e)
      [] expr.kind = "Boolean" -> Ret(ObjBoolean(expr.value), e)
      [] expr.kind = "IfExpression" -> EvalIfExpr(expr, e)
      [] expr.kind = "FunctionLiteral" -> Ret(EvalFunctionLiteral(expr, e), e)
      [] expr.kind = "CallExpression" -> EvalCallExpression(expr, e)
      [] expr.kind = "StringLiteral" -> Ret(ObjString(expr.value), e)

\* The LetStatement arm of eval (eval.rs:27-48)
EvalLetStatement(x, e) ==
    Bind(EvalExprOr(x.value,
             ObjError("Could not evaluate let statement expression"), e),
         LAMBDA res :
    IF res.abort \/ IsError(res.obj) THEN res
    ELSE IF x.name = None
    THEN Ret(ObjError("Could not add identifier to environment"), res.env)
    ELSE Ret(res.obj, EnvSet(res.env, x.name.value, res.obj)))

\* eval: always returns Some(object)
Eval(state, e) ==
    CASE state.kind = "LetStatement" -> EvalLetStatement(state, e)
      [] state.kind = "ReturnStatement" -> EvalRet(state, e)
      [] state.kind = "ExpressionStatement" -> EvalExpressionStmt(state, e)
      [] state.kind = "BlockStatement" -> EvalBlock(state, e)

------------------------------------------------------------------------

Evaluate(fn, node, e) ==
    CASE fn = "eval" -> Eval(node, e)
      [] fn = "eval_expr" -> EvalExpr(node, e)

-----
(* Inputs: the token streams the lexer produces for source texts.          *)

tLET == Tok("LET", "let")
tRETURN == Tok("RETURN", "return")
tIF == Tok("IF", "if")
tELSE == Tok("ELSE", "else")
tFN == Tok("FUNCTION", "fn")
tTRUE == Tok("TRUE", "true")
tFALSE == Tok("FALSE", "false")
tASSIGN == Tok("ASSIGN", "=")
tSEMI == Tok("SEMICOLON", ";")
tCOMMA == Tok("COMMA", ",")
tLP == Tok("LPAREN", "(")
tRP == Tok("RPAREN", ")")
tLB == Tok("LBRACE", "{")
tRB == Tok("RBRACE", "}")
tPLUS == Tok("PLUS", "+")
tMINUS == Tok("MINUS", "-")
tBANG == Tok("BANG", "!")
tSTAR == Tok("ASTERICK", "*")
tSLASH == Tok("SLASH", "/")
tLT == Tok("LT", "<")
tGT == Tok("GT", ">")
tEQ == Tok("EQ", "==")
tNEQ == Tok("NEQ", "!=")
tID(n) == Tok("IDENT", n)
tINT(n) == Tok("INT", n)
tSTR(s) == Tok("STRING", s)

\* The eight infix operator tokens
InfixOpToks == {tPLUS, tMINUS, tSTAR, tSLASH, tLT, tGT, tEQ, tNEQ}

\* Lexer::next_token returns for ever on an input that ends in a letter or a
\* digit (read_identifier / read_number, lexer.rs:100-128, never leave
\* their loop once read_char has set `end`): the token stream of an input
\* the parser is given ends in a punctuation, operator or string token.
Lexable(toks) ==
    /\ toks # <<>>
    /\ toks[Len(toks)].type_ \notin
          {"IDENT", "INT", "LET", "RETURN", "IF", "ELSE", "FUNCTION", "TRUE",
           "FALSE"}

RECURSIVE Concat(_)
Concat(ss) == IF ss = <<>> THEN <<>> ELSE Head(ss) \o Concat(Tail(ss))

\* The largest number of statements of a program built from StmtLib
MaxStmts == 3

\* let a = 5;
SLetA == <<tLET, tID("a"), tASSIGN, tINT("5"), tSEMI>>
\* let b = a + 10;
SLetB == <<tLET, tID("b"), tASSIGN, tID("a"), tPLUS, tINT("10"), tSEMI>>
\* b;
SExprB == <<tID("b"), tSEMI>>
\* return 20;
SReturn20 == <<tRETURN, tINT("20"), tSEMI>>
\* if (1 < 2) { return 10; }
SIfReturn10 ==
    <<tIF, tLP, tINT("1"), tLT, tINT("2"), tRP, tLB, tRETURN, tINT("10"),
      tSEMI, tRB>>
\* let z = 7;
SLetZ == <<tLET, tID("z"), tASSIGN, tINT("7"), tSEMI>>
\* 5 + true;
SFivePlusTrue == <<tINT("5"), tPLUS, tTRUE, tSEMI>>
\* return a;
SReturnA == <<tRETURN, tID("a"), tSEMI>>

StmtLib ==
    {SLetA, SLetB, SExprB, SReturn20, SIfReturn10, SLetZ, SFivePlusTrue,
     SReturnA}

\* Every program of 1..MaxStmts statements of StmtLib
LibPrograms ==
    UNION {{Concat(f) : f \in [1..n -> StmtLib]} : n \in 1..MaxStmts}

\* if () { }     (the parser panics: no condition)
SrcIfNoCond == <<tIF, tLP, tRP, tLB, tRB>>
\* 5 / 0;        (the evaluator panics)
SrcDivZero == <<tINT("5"), tSLASH, tINT("0"), tSEMI>>
\* let;          (the first statement fails to parse: the program is empty)
SrcLetOnly == <<tLET, tSEMI>>

\* let x = a op1 b op2 c;
LetChain(op1, op2) ==
    <<tLET, tID("x"), tASSIGN, tID("a"), op1, tID("b"), op2, tID("c"), tSEMI>>
\* return a op1 b op2 c;
ReturnChain(op1, op2) ==
    <<tRETURN, tID("a"), op1, tID("b"), op2, tID("c"), tSEMI>>
\* let x = pre a op b;     pre is - or !
LetPrefixChain(pre, op) ==
    <<tLET, tID("x"), tASSIGN, pre, tID("a"), op, tID("b"), tSEMI>>
\* let x = a op f(b);
LetOpCall(op) ==
    <<tLET, tID("x"), tASSIGN, tID("a"), op, tID("f"), tLP, tID("b"), tRP,
      tSEMI>>
\* let x = pre f(b);
LetPrefixCall(pre) ==
    <<tLET, tID("x"), tASSIGN, pre, tID("f"), tLP, tID("b"), tRP, tSEMI>>

PrefixOpToks == {tMINUS, tBANG}

OperatorSources ==
    {LetChain(op1, op2) : op1 \in InfixOpToks, op2 \in InfixOpToks}
    \cup {ReturnChain(op1, op2) : op1 \in InfixOpToks, op2 \in InfixOpToks}
    \cup {LetPrefixChain(pre, op) : pre \in PrefixOpToks, op \in InfixOpToks}
    \cup {LetOpCall(op) : op \in InfixOpToks}
    \cup {LetPrefixCall(pre) : pre \in PrefixOpToks}

\* (1 + 2) op 3;
GroupFirst(op) ==
    <<tLP, tINT("1"), tPLUS, tINT("2"), tRP, op, tINT("3"), tSEMI>>
\* -5 op 3;
MinusFirst(op) == <<tMINUS, tINT("5"), op, tINT("3"), tSEMI>>
\* !true op false;
BangFirst(op) == <<tBANG, tTRUE, op, tFALSE, tSEMI>>
\* 5 op 3;
IntFirst(op) == <<tINT("5"), op, tINT("3"), tSEMI>>

ExpressionStatementSources ==
    {GroupFirst(op) : op \in InfixOpToks}
    \cup {MinusFirst(op) : op \in InfixOpToks}
    \cup {BangFirst(op) : op \in InfixOpToks}
    \cup {IntFirst(op) : op \in InfixOpToks}

\* let = 5;
SrcLetNoName == <<tLET, tASSIGN, tINT("5"), tSEMI>>
\* let x 5;
SrcLetNoAssign == <<tLET, tID("x"), tINT("5"), tSEMI>>
\* let x = (1 + 2;
SrcGroupNoRparen ==
    <<tLET, tID("x"), tASSIGN, tLP, tINT("1"), tPLUS, tINT("2"), tSEMI>>
\* let x = if a) { b };
SrcIfNoLparen ==
    <<tLET, tID("x"), tASSIGN, tIF, tID("a"), tRP, tLB, tID("b"), tRB, tSEMI>>
\* let x = if (a { b };
SrcIfNoRparen ==
    <<tLET, tID("x"), tASSIGN, tIF, tLP, tID("a"), tLB, tID("b"), tRB, tSEMI>>
\* let x = if (a) b;
SrcIfNoLbrace ==
    <<tLET, tID("x"), tASSIGN, tIF, tLP, tID("a"), tRP, tID("b"), tSEMI>>
\* let x = if (a) { b } else c;
SrcElseNoLbrace ==
    <<tLET, tID("x"), tASSIGN, tIF, tLP, tID("a"), tRP, tLB, tID("b"), tRB,
      tELSE, tID("c"), tSEMI>>
\* let x = if (a) { b } else { c };
SrcIfElse ==
    <<tLET, tID("x"), tASSIGN, tIF, tLP, tID("a"), tRP, tLB, tID("b"), tRB,
      tELSE, tLB, tID("c"), tRB, tSEMI>>
\* let x = fn a) { b };
SrcFnNoLparen ==
    <<tLET, tID("x"), tASSIGN, tFN, tID("a"), tRP, tLB, tID("b"), tRB, tSEMI>>
\* let x = fn(a { b };
SrcFnNoRparen ==
    <<tLET, tID("x"), tASSIGN, tFN, tLP, tID("a"), tLB, tID("b"), tRB, tSEMI>>
\* let x = fn(a, b) c;
SrcFnNoLbrace ==
    <<tLET, tID("x"), tASSIGN, tFN, tLP, tID("a"), tCOMMA, tID("b"), tRP,
      tID("c"), tSEMI>>
\* let x = f(a;
SrcCallNoRparen ==
    <<tLET, tID("x"), tASSIGN, tID("f"), tLP, tID("a"), tSEMI>>
\* let x = f(a, b;
SrcCallTwoNoRparen ==
    <<tLET, tID("x"), tASSIGN, tID("f"), tLP, tID("a"), tCOMMA, tID("b"),
      tSEMI>>
\* let x = 9223372036854775808;
SrcTooBig == <<tLET, tID("x"), tASSIGN, tINT(TooBigNumeral), tSEMI>>

MalformedSources ==
    {SrcLetNoName, SrcLetNoAssign, SrcGroupNoRparen, SrcIfNoLparen,
     SrcIfNoRparen, SrcIfNoLbrace, SrcElseNoLbrace, SrcIfElse, SrcFnNoLparen,
     SrcFnNoRparen, SrcFnNoLbrace, SrcCallNoRparen, SrcCallTwoNoRparen,
     SrcTooBig}

\* The function bodies of CallAdd, each with the value the body's last
\* statement has when x = 3 and y = 4: x + y | x | y; | x * y | let z = x; z
\* and the empty body
BodyXPlusY == <<tID("x"), tPLUS, tID("y")>>
BodyX == <<tID("x")>>
BodyYSemi == <<tID("y"), tSEMI>>
BodyXTimesY == <<tID("x"), tSTAR, tID("y")>>
BodyLetZ == <<tLET, tID("z"), tASSIGN, tID("x"), tSEMI, tID("z")>>
BodyEmpty == <<>>
FnBodies ==
    {BodyXPlusY, BodyX, BodyYSemi, BodyXTimesY, BodyLetZ, BodyEmpty}

\* let add = fn(x, y) { body }; add(3, 4);
CallAdd(body) ==
    <<tLET, tID("add"), tASSIGN, tFN, tLP, tID("x"), tCOMMA, tID("y"), tRP,
      tLB>> \o body \o
    <<tRB, tSEMI, tID("add"), tLP, tINT("3"), tCOMMA, tINT("4"), tRP, tSEMI>>

\* if (true) { 10 };
SrcIfTen == <<tIF, tLP, tTRUE, tRP, tLB, tINT("10"), tRB, tSEMI>>
\* let add = fn(x, y) { x + y }; add(3);     (a missing argument)
SrcCallTooFew ==
    <<tLET, tID("add"), tASSIGN, tFN, tLP, tID("x"), tCOMMA, tID("y"), tRP,
      tLB, tID("x"), tPLUS, tID("y"), tRB, tSEMI, tID("add"), tLP, tINT("3"),
      tRP, tSEMI>>

BlockSources == {CallAdd(body) : body \in FnBodies} \cup {SrcIfTen, SrcCallTooFew}

\* if (true) { return 1; }
IfTrueReturn1 == <<tIF, tLP, tTRUE, tRP, tLB, tRETURN, tINT("1"), tSEMI, tRB>>
\* return if (true) { return 1; };
SrcReturnIfReturn == <<tRETURN>> \o IfTrueReturn1 \o <<tSEMI>>
\* let f = fn() { return if (true) { return 1; }; }; let r = f(); 2;
SrcCallReturnIfReturn ==
    <<tLET, tID("f"), tASSIGN, tFN, tLP, tRP, tLB, tRETURN>> \o IfTrueReturn1
    \o <<tSEMI, tRB, tSEMI, tLET, tID("r"), tASSIGN, tID("f"), tLP, tRP,
         tSEMI, tINT("2"), tSEMI>>
\* let f = fn() { return 1; }; let r = f(); 2;
SrcCallReturn ==
    <<tLET, tID("f"), tASSIGN, tFN, tLP, tRP, tLB, tRETURN, tINT("1"), tSEMI,
      tRB, tSEMI, tLET, tID("r"), tASSIGN, tID("f"), tLP, tRP, tSEMI,
      tINT("2"), tSEMI>>

ReturnSources == {SrcReturnIfReturn, SrcCallReturnIfReturn, SrcCallReturn}

\* if (true) { return x; }
IfTrueReturnX == <<tIF, tLP, tTRUE, tRP, tLB, tRETURN, tID("x"), tSEMI, tRB>>
\* let id = fn(y) { return y; };
LetId ==
    <<tLET, tID("id"), tASSIGN, tFN, tLP, tID("y"), tRP, tLB, tRETURN,
      tID("y"), tSEMI, tRB, tSEMI>>

\* Programs in which the identifier x, bound nowhere, is evaluated inside
\* each kind of enclosing step:
\*   let a = -x;   let a = !x;   let a = x + 1;   let a = 1 + x;
\*   let a = if (x) { 1 };   let a = x;   return x;   if (true) { x; 1; };
\*   let id = fn(y) { return y; }; id(x);
\*   let id = fn(y) { return y; }; id(id(x));
\*   let f = fn() { x; 1; }; f();
\*   x(1);
\*   let a = !if (true) { return x; };
\*   let a = 1 + if (true) { return x; };
\*   let id = fn(y) { return y; }; id(if (true) { return x; });
LetA(value) == <<tLET, tID("a"), tASSIGN>> \o value \o <<tSEMI>>
ErrorSources ==
    {LetA(<<tMINUS, tID("x")>>),
     LetA(<<tBANG, tID("x")>>),
     LetA(<<tID("x"), tPLUS, tINT("1")>>),
     LetA(<<tINT("1"), tPLUS, tID("x")>>),
     LetA(<<tIF, tLP, tID("x"), tRP, tLB, tINT("1"), tRB>>),
     LetA(<<tID("x")>>),
     <<tRETURN, tID("x"), tSEMI>>,
     <<tIF, tLP, tTRUE, tRP, tLB, tID("x"), tSEMI, tINT("1"), tSEMI, tRB,
       tSEMI>>,
     LetId \o <<tID("id"), tLP, tID("x"), tRP, tSEMI>>,
     LetId \o <<tID("id"), tLP, tID("id"), tLP, tID("x"), tRP, tRP, tSEMI>>,
     <<tLET, tID("f"), tASSIGN, tFN, tLP, tRP, tLB, tID("x"), tSEMI,
       tINT("1"), tSEMI, tRB, tSEMI, tID("f"), tLP, tRP, tSEMI>>,
     <<tID("x"), tLP, tINT("1"), tRP, tSEMI>>,
     LetA(<<tBANG>> \o IfTrueReturnX),
     LetA(<<tINT("1"), tPLUS>> \o IfTrueReturnX),
     LetId \o <<tID("id"), tLP>> \o IfTrueReturnX \o <<tRP, tSEMI>>}

\* The closure programs
\*   [let x = 9; let y = 8;]
\*   let mk = fn(x) { return fn(y, z) { return body; }; };
\*   let h = mk(a);
\*   return h(b, c);
\* body one of x | y | z | x - y | y - z | x - z, and a, b, c numerals.
ClosureBody(n) ==
    CASE n = "x" -> <<tID("x")>>
      [] n = "y" -> <<tID("y")>>
      [] n = "z" -> <<tID("z")>>
      [] n = "x - y" -> <<tID("x"), tMINUS, tID("y")>>
      [] n = "y - z" -> <<tID("y"), tMINUS, tID("z")>>
      [] n = "x - z" -> <<tID("x"), tMINUS, tID("z")>>
ClosureBodies == {"x", "y", "z", "x - y", "y - z", "x - z"}
ClosureArgs == {"1", "2", "4"}
TopLevelXY ==
    <<tLET, tID("x"), tASSIGN, tINT("20"), tSEMI,
      tLET, tID("y"), tASSIGN, tINT("40"), tSEMI>>
ClosureSrc(top, body, a, b, c) ==
    (IF top THEN TopLevelXY ELSE <<>>) \o
    <<tLET, tID("mk"), tASSIGN, tFN, tLP, tID("x"), tRP, tLB, tRETURN, tFN,
      tLP, tID("y"), tCOMMA, tID("z"), tRP, tLB, tRETURN>> \o
    ClosureBody(body) \o
    <<tSEMI, tRB, tSEMI, tRB, tSEMI,
      tLET, tID("h"), tASSIGN, tID("mk"), tLP, tINT(a), tRP, tSEMI,
      tRETURN, tID("h"), tLP, tINT(b), tCOMMA, tINT(c), tRP, tSEMI>>
ClosureSources ==
    {ClosureSrc(top, body, a, b, c) :
        top \in BOOLEAN, body \in ClosureBodies,
        a \in ClosureArgs, b \in ClosureArgs, c \in ClosureArgs}

\* The character @, for which next_token returns an ILLEGAL token
tILLEGAL == Tok("ILLEGAL", "@")

\* Tokens that have no prefix parse function
NoPrefixToks == {tSTAR, tSLASH, tRP, tASSIGN, tILLEGAL, tRB, tCOMMA}
\* let x = t 5;
LetNoPrefix(t) == <<tLET, tID("x"), tASSIGN, t, tINT("5"), tSEMI>>
\* return t 5;
ReturnNoPrefix(t) == <<tRETURN, t, tINT("5"), tSEMI>>
\* t 5;
StmtNoPrefix(t) == <<t, tINT("5"), tSEMI>>
\* let x =          (parse_expression is entered at EOF)
SrcLetEOF == <<tLET, tID("x"), tASSIGN>>
NoPrefixSources ==
    {LetNoPrefix(t) : t \in NoPrefixToks}
    \cup {ReturnNoPrefix(t) : t \in NoPrefixToks}
    \cup {StmtNoPrefix(t) : t \in NoPrefixToks}
    \cup {SrcLetEOF}

\* A let statement that fails to parse, followed by well-formed statements:
\*   let = 5; let z = 7;     let x 5; let z = 7;     let; let z = 7; b;
AfterFailureSources ==
    {SrcLetNoName \o SLetZ, SrcLetNoAssign \o SLetZ,
     SrcLetOnly \o SLetZ \o SExprB,
     SLetA \o SrcLetNoName \o SLetZ}

\* l op r;     l and r one of 5, true, false and "s"
InfixOperandToks == {tINT("5"), tTRUE, tFALSE, tSTR("s")}
MixedInfix(l, op, r) == <<l, op, r, tSEMI>>
MixedInfixSources ==
    {MixedInfix(l, op, r) :
        l \in InfixOperandToks, op \in InfixOpToks, r \in InfixOperandToks}

\* let a = -v;     v one of true, false, "s", fn() { }, if (false) { 1 }
\* (the last evaluates to Null)
MinusOperands ==
    {<<tTRUE>>, <<tFALSE>>, <<tSTR("s")>>, <<tFN, tLP, tRP, tLB, tRB>>,
     <<tIF, tLP, tFALSE, tRP, tLB, tINT("1"), tRB>>}
LetMinus(v) == LetA(<<tMINUS>> \o v)
MinusSources == {LetMinus(v) : v \in MinusOperands}

\* The conditions  true | 1 < 2 | false | 1 > 2 | 0 | 5 | "s" | fn() { } |
\* if (false) { 1 }  (Null)
IfConds ==
    {<<tTRUE>>, <<tINT("1"), tLT, tINT("2")>>, <<tFALSE>>,
     <<tINT("1"), tGT, tINT("2")>>, <<tINT("0")>>, <<tINT("5")>>,
     <<tSTR("s")>>, <<tFN, tLP, tRP, tLB, tRB>>,
     <<tIF, tLP, tFALSE, tRP, tLB, tINT("1"), tRB>>}
\* if (c) { let c = 1; return 1; }
IfOnly(c) ==
    <<tIF, tLP>> \o c \o
    <<tRP, tLB, tLET, tID("c"), tASSIGN, tINT("1"), tSEMI, tRETURN,
      tINT("1"), tSEMI, tRB>>
\* if (c) { let c = 1; return 1; } else { let d = 2; return 2; }
IfElse(c) ==
    IfOnly(c) \o
    <<tELSE, tLB, tLET, tID("d"), tASSIGN, tINT("2"), tSEMI, tRETURN,
      tINT("2"), tSEMI, tRB>>
IfSources == {IfOnly(c) : c \in IfConds} \cup {IfElse(c) : c \in IfConds}

\* The largest number of arguments of a call of CallOrderSources
MaxArgs == 2

\* The arguments  x | y  (bound nowhere: an Error)  | 1 | 5 / 0  (a panic)
ArgNames == {"x", "y", "1", "5/0"}
ArgToks(a) ==
    CASE a = "x" -> <<tID("x")>>
      [] a = "y" -> <<tID("y")>>
      [] a = "1" -> <<tINT("1")>>
      [] a = "5/0" -> <<tINT("5"), tSLASH, tINT("0")>>
RECURSIVE ArgList(_)
ArgList(args) ==
    IF args = <<>> THEN <<>>
    ELSE IF Len(args) = 1 THEN ArgToks(args[1])
    ELSE ArgToks(args[1]) \o <<tCOMMA>> \o ArgList(Tail(args))
\* The callees  5 | true  (no functions) | g  (bound nowhere) | f, after
\* let f = fn(a, b) { return 1; };
CalleeNames == {"5", "true", "g", "f"}
CalleeToks(c) ==
    CASE c = "5" -> <<tINT("5")>>
      [] c = "true" -> <<tTRUE>>
      [] c = "g" -> <<tID("g")>>
      [] c = "f" -> <<tID("f")>>
LetF ==
    <<tLET, tID("f"), tASSIGN, tFN, tLP, tID("a"), tCOMMA, tID("b"), tRP, tLB,
      tRETURN, tINT("1"), tSEMI, tRB, tSEMI>>
\* [let f = fn(a, b) { return 1; };] callee(args);
CallOrder(c, args) ==
    (IF c = "f" THEN LetF ELSE <<>>) \o CalleeToks(c) \o <<tLP>>
        \o ArgList(args) \o <<tRP, tSEMI>>
ArgLists == UNION {[1..n -> ArgNames] : n \in 0..MaxArgs}
\* f is called with as many arguments as it has parameters
CallOrderCases ==
    {cs \in [callee : CalleeNames, args : ArgLists] :
        cs.callee = "f" => Len(cs.args) = 2}
CallOrderSources == {CallOrder(cs.callee, cs.args) : cs \in CallOrderCases}

\* Well-formed let statements, each with the node it is:
\*   let a = 5;   let b = a + 10;   let f = fn(x) { return x; };
\*   let c = f(a);   let s = "s";
LetLib ==
    {[toks |-> SLetA,
      node |-> LetStatement(Identifier("a"), IntegerLiteral(5))],
     [toks |-> SLetB,
      node |-> LetStatement(Identifier("b"),
                   InfixExpression("+", Identifier("a"),
                                   IntegerLiteral(10)))],
     [toks |-> <<tLET, tID("f"), tASSIGN, tFN, tLP, tID("x"), tRP, tLB,
                 tRETURN, tID("x"), tSEMI, tRB, tSEMI>>,
      node |-> LetStatement(Identifier("f"),
                   FunctionLiteral(Some(<<Identifier("x")>>),
                       BlockStatement(
                           <<ReturnStatement(Identifier("x"))>>)))],
     [toks |-> <<tLET, tID("c"), tASSIGN, tID("f"), tLP, tID("a"), tRP,
                 tSEMI>>,
      node |-> LetStatement(Identifier("c"),
                   CallExpression(Identifier("f"),
                                  Some(<<Identifier("a")>>)))],
     [toks |-> <<tLET, tID("s"), tASSIGN, tSTR("s"), tSEMI>>,
      node |-> LetStatement(Identifier("s"), StringLiteral("s"))]}
\* Well-formed return statements:
\*   return 20;   return a;   return -a;   return a * 2;   return !true;
ReturnLib ==
    {[toks |-> SReturn20, node |-> ReturnStatement(IntegerLiteral(20))],
     [toks |-> SReturnA, node |-> ReturnStatement(Identifier("a"))],
     [toks |-> <<tRETURN, tMINUS, tID("a"), tSEMI>>,
      node |-> ReturnStatement(PrefixExpression("-", Identifier("a")))],
     [toks |-> <<tRETURN, tID("a"), tSTAR, tINT("2"), tSEMI>>,
      node |-> ReturnStatement(
                   InfixExpression("*", Identifier("a"),
                                   IntegerLiteral(2)))],
     [toks |-> <<tRETURN, tBANG, tTRUE, tSEMI>>,
      node |-> ReturnStatement(PrefixExpression("!", Boolean(TRUE)))]}
\* Every source of 1..MaxStmts statements of lib
StatementLists(lib) ==
    UNION {{Concat([i \in 1..n |-> f[i].toks]) : f \in [1..n -> lib]} :
              n \in 1..MaxStmts}
LetReturnSources == StatementLists(LetLib) \cup StatementLists(ReturnLib)

\* return; let z = 7;
SrcReturnBareLet == <<tRETURN, tSEMI>> \o SLetZ
\* let f = fn() { return; return 1; }; return f();
SrcReturnBareInFn ==
    <<tLET, tID("f"), tASSIGN, tFN, tLP, tRP, tLB, tRETURN, tSEMI, tRETURN,
      tINT("1"), tSEMI, tRB, tSEMI, tRETURN, tID("f"), tLP, tRP, tSEMI>>
\* let a = if (true) { return 1; };
SrcLetIfReturn == <<tLET, tID("a"), tASSIGN>> \o IfTrueReturn1 \o <<tSEMI>>
ReturnBareSources == {SrcReturnBareLet, SrcReturnBareInFn, SrcLetIfReturn}

\* let f = fn(x) { return f(x); }; return f(1);
SrcSelfCall ==
    <<tLET, tID("f"), tASSIGN, tFN, tLP, tID("x"), tRP, tLB, tRETURN,
      tID("f"), tLP, tID("x"), tRP, tSEMI, tRB, tSEMI,
      tRETURN, tID("f"), tLP, tINT("1"), tRP, tSEMI>>
\* let f = fn() { return n; };
LetFReturns(n) ==
    <<tLET, tID("f"), tASSIGN, tFN, tLP, tRP, tLB, tRETURN, tID(n), tSEMI,
      tRB, tSEMI>>
\* return f();
ReturnCallF == <<tRETURN, tID("f"), tLP, tRP, tSEMI>>
\* let a = 5; let f = fn() { return a; }; let a = 7; return f();
SrcCaptureOverwritten ==
    SLetA \o LetFReturns("a")
    \o <<tLET, tID("a"), tASSIGN, tINT("7"), tSEMI>> \o ReturnCallF
\* let f = fn() { return z; }; let z = 7; return f();
SrcCaptureAdded == LetFReturns("z") \o SLetZ \o ReturnCallF
CaptureSources == {SrcSelfCall, SrcCaptureOverwritten, SrcCaptureAdded}

\* if (cond) { let c = 1; } else { let d = 2; }
IfLet(cond) ==
    <<tIF, tLP, cond, tRP, tLB, tLET, tID("c"), tASSIGN, tINT("1"), tSEMI,
      tRB, tELSE, tLB, tLET, tID("d"), tASSIGN, tINT("2"), tSEMI, tRB>>
\* let c = 5; if (cond) { let c = 1; } else { let d = 2; }; c;
SrcIfLet(cond) ==
    <<tLET, tID("c"), tASSIGN, tINT("5"), tSEMI>> \o IfLet(cond)
    \o <<tSEMI, tID("c"), tSEMI>>
\* let f = fn() { if (true) { let c = 1; } else { let d = 2; }; return c; };
\* return f();
SrcIfLetInFn ==
    <<tLET, tID("f"), tASSIGN, tFN, tLP, tRP, tLB>> \o IfLet(tTRUE)
    \o <<tSEMI, tRETURN, tID("c"), tSEMI, tRB, tSEMI>> \o ReturnCallF
IfLetSources == {SrcIfLet(tTRUE), SrcIfLet(tFALSE), SrcIfLetInFn}

\* let x = 5; let f = fn(x) { let x = 2; let y = 3; return x; }; f(1); x;
SrcCallShadow ==
    <<tLET, tID("x"), tASSIGN, tINT("5"), tSEMI,
      tLET, tID("f"), tASSIGN, tFN, tLP, tID("x"), tRP, tLB,
      tLET, tID("x"), tASSIGN, tINT("2"), tSEMI,
      tLET, tID("y"), tASSIGN, tINT("3"), tSEMI,
      tRETURN, tID("x"), tSEMI, tRB, tSEMI,
      tID("f"), tLP, tINT("1"), tRP, tSEMI, tID("x"), tSEMI>>
\* let f = fn(x) { let f = 2; return f; }; f(true);
SrcCallRebindsCallee ==
    <<tLET, tID("f"), tASSIGN, tFN, tLP, tID("x"), tRP, tLB,
      tLET, tID("f"), tASSIGN, tINT("2"), tSEMI,
      tRETURN, tID("f"), tSEMI, tRB, tSEMI,
      tID("f"), tLP, tTRUE, tRP, tSEMI>>
CallFrameSources == {SrcCallShadow, SrcCallRebindsCallee}

Sources ==
    {s \in LibPrograms
           \cup {SrcIfNoCond, SrcDivZero, SrcLetOnly}
           \cup OperatorSources \cup ExpressionStatementSources
           \cup MalformedSources \cup BlockSources \cup ReturnSources
           \cup ErrorSources \cup ClosureSources
           \cup NoPrefixSources \cup AfterFailureSources
           \cup MixedInfixSources \cup MinusSources \cup IfSources
           \cup CallOrderSources \cup LetReturnSources
           \cup ReturnBareSources \cup CaptureSources
           \cup IfLetSources \cup CallFrameSources :
        Lexable(s)}

-----------------------------------------------------------------------------
(* The lexer (lexer.rs), character by character.  The input is a sequence  *)
(* of one-character strings.                                               *)
(*   lex      the Lexer: input, position, read_position, ch, end; and      *)
(*            at   where next_token is: "idle" between two calls,          *)
(*                 "skip_whitespace", "match", "read_identifier",          *)
(*                 "read_number", "read_string" inside a call, "panic"     *)
(*            pos  the local `pos` / `position` of read_identifier,        *)
(*                 read_number and read_string                             *)
(*            out  the tokens next_token has returned so far               *)
(*   lexemes  Some(tokens of the lexemes the input was put together from), *)
(*            None for an input given character by character               *)

Letters ==
    {"a", "b", "c", "d", "e", "f", "g", "h", "i", "j", "k", "l", "m", "n",
     "o", "p", "q", "r", "s", "t", "u", "v", "w", "x", "y", "z"}
Digits == {"0", "1", "2", "3", "4", "5", "6", "7", "8", "9"}
Quote == "\""

IsAlphabetic(c) == c \in Letters
IsAsciiAlphanumeric(c) == c \in Letters \cup Digits
IsAsciiWhitespace(c) == c \in {" ", "\t", "\n", "\r"}
\* Lexer::is_num
IsNum(c) == c \in Digits

RECURSIVE StrCat(_)
\* std::str::from_utf8 of a slice of the input
StrCat(cs) == IF cs = <<>> THEN "" ELSE Head(cs) \o StrCat(Tail(cs))

\* input[a..b]; the caller checks a <= b
Slice(input, a, b) == SubSeq(input, a + 1, b)

\* generate_keywords
Keywords ==
    ("fn" :> "FUNCTION") @@ ("let" :> "LET") @@ ("true" :> "TRUE")
    @@ ("false" :> "FALSE") @@ ("if" :> "IF") @@ ("else" :> "ELSE")
    @@ ("return" :> "RETURN")

LookupIdentifier(ident) ==
    IF ident \in DOMAIN Keywords THEN Keywords[ident] ELSE "IDENT"

\* The arms of the match of next_token that make a token of one character
SingleCharTokens ==
    ("-" :> "MINUS") @@ ("/" :> "SLASH") @@ ("*" :> "ASTERICK")
    @@ ("<" :> "LT") @@ (">" :> "GT") @@ (";" :> "SEMICOLON")
    @@ ("(" :> "LPAREN") @@ (")" :> "RPAREN") @@ ("," :> "COMMA")
    @@ ("+" :> "PLUS") @@ ("{" :> "LBRACE") @@ ("}" :> "RBRACE")

\* Lexer::init_lexer, for a non-empty input
InitLexer(input) ==
    [input |-> input, position |-> 0, read_position |-> 1, ch |-> input[1],
     end |-> FALSE, at |-> "idle", pos |-> 0, out |-> <<>>]

\* Under Spec the parser reads the token stream par.toks; lex is not used.
NoLexer == [at |-> "tokens"]

ReadChar(l) ==
    IF l.read_position >= Len(l.input)
    THEN [l EXCEPT !.end = TRUE]
    ELSE [l EXCEPT !.ch = l.input[l.read_position + 1],
                   !.position = l.read_position,
                   !.read_position = l.read_position + 1]

\* '\0' is written "NUL"
PeekChar(l) ==
    IF l.read_position >= Len(l.input) THEN "NUL"
    ELSE l.input[l.read_position + 1]

\* The end of next_token: `self.read_char(); tok`
NextTokenReturn(l, tok) ==
    [ReadChar(l) EXCEPT !.at = "idle", !.pos = 0, !.out = Append(@, tok)]

\* read_identifier after its loop, without the two decrements
ReadIdentifierReturnNoBackup(l) ==
    [l |-> l, literal |-> StrCat(Slice(l.input, l.pos, l.position))]

\* read_identifier after its loop: the slice, and position and
\* read_position moved back by one
ReadIdentifierReturn(l) ==
    [l |-> [l EXCEPT !.position = @ - 1, !.read_position = @ - 1],
     literal |-> StrCat(Slice(l.input, l.pos, l.position))]

\* read_number after its loop
ReadNumberReturn(l) ==
    [l |-> [l EXCEPT !.position = @ - 1, !.read_position = @ - 1],
     literal |-> StrCat(Slice(l.input, l.pos, l.position))]

\* The number of calls of next_token that found `end` set
CallsAtEOF(l) == Cardinality({i \in 1..Len(l.out) : l.out[i] = EOFTok})

\* The calls of next_token made once `end` is set that the model follows
MaxCallsAtEOF == 2

\* The variables of the parser and the evaluator
progvars == <<pc, src, par, program, env, trace, result>>

\* next_token with `end` set: return new_token(EOF, "\0")
NextTokenAtEnd ==
    /\ lex.at = "idle"
    /\ lex.end
    /\ CallsAtEOF(lex) < MaxCallsAtEOF
    /\ lex' = [lex EXCEPT !.out = Append(@, EOFTok)]
    /\ UNCHANGED <<lexemes, progvars>>

\* next_token is called, `end` not set: skip_whitespace is entered
NextTokenEnter ==
    /\ lex.at = "idle"
    /\ ~lex.end
    /\ lex' = [lex EXCEPT !.at = "skip_whitespace"]
    /\ UNCHANGED <<lexemes, progvars>>

\* One iteration of the loop of skip_whitespace
SkipWhitespaceStep ==
    /\ lex.at = "skip_whitespace"
    /\ IsAsciiWhitespace(lex.ch)
    /\ lex' = ReadChar(lex)
    /\ UNCHANGED <<lexemes, progvars>>

SkipWhitespaceExit ==
    /\ lex.at = "skip_whitespace"
    /\ ~IsAsciiWhitespace(lex.ch)
    /\ lex' = [lex EXCEPT !.at = "match"]
    /\ UNCHANGED <<lexemes, progvars>>

\* The arms '=' and '!': two characters when the next one is '='
MatchAssignOrBang ==
    /\ lex.at = "match"
    /\ lex.ch \in {"=", "!"}
    /\ lex' =
          IF PeekChar(lex) = "="
          THEN NextTokenReturn(ReadChar(lex),
                   IF lex.ch = "=" THEN Tok("EQ", "==") ELSE Tok("NEQ", "!="))
          ELSE NextTokenReturn(lex,
                   IF lex.ch = "=" THEN Tok("ASSIGN", "=")
                   ELSE Tok("BANG", "!"))
    /\ UNCHANGED <<lexemes, progvars>>

MatchSingleChar ==
    /\ lex.at = "match"
    /\ lex.ch \in DOMAIN SingleCharTokens
    /\ lex' = NextTokenReturn(lex, Tok(SingleCharTokens[lex.ch], lex.ch))
    /\ UNCHANGED <<lexemes, progvars>>

\* The arm '"': read_string up to its loop
MatchQuote ==
    /\ lex.at = "match"
    /\ lex.ch = Quote
    /\ lex' = [ReadChar(lex) EXCEPT !.at = "read_string",
                                    !.pos = lex.position + 1]
    /\ UNCHANGED <<lexemes, progvars>>

\* One iteration of the loop of read_string
ReadStringStep ==
    /\ lex.at = "read_string"
    /\ ~(lex.ch = Quote \/ lex.end)
    /\ lex' = ReadChar(lex)
    /\ UNCHANGED <<lexemes, progvars>>

\* read_string after its loop, and the end of next_token
ReadStringReturn ==
    /\ lex.at = "read_string"
    /\ lex.ch = Quote \/ lex.end
    /\ lex.pos <= lex.position
    /\ lex' = NextTokenReturn(lex,
                  Tok("STRING",
                      StrCat(Slice(lex.input, lex.pos, lex.position))))
    /\ UNCHANGED <<lexemes, progvars>>

\* input[position..self.position] with position > self.position panics
ReadStringPanic ==
    /\ lex.at = "read_string"
    /\ lex.ch = Quote \/ lex.end
    /\ lex.pos > lex.position
    /\ lex' = [lex EXCEPT !.at = "panic"]
    /\ UNCHANGED <<lexemes, progvars>>

\* The default arm, a letter: read_identifier up to its loop
MatchLetter ==
    /\ lex.at = "match"
    /\ IsAlphabetic(lex.ch)
    /\ lex' = [lex EXCEPT !.at = "read_identifier", !.pos = lex.position]
    /\ UNCHANGED <<lexemes, progvars>>

\* One iteration of the loop of read_identifier
ReadIdentifierStep ==
    /\ lex.at = "read_identifier"
    /\ IsAsciiAlphanumeric(lex.ch)
    /\ lex' = ReadChar(lex)
    /\ UNCHANGED <<lexemes, progvars>>

\* read_identifier after its loop, lookup_identifier, the end of next_token
ReadIdentifierExit ==
    /\ lex.at = "read_identifier"
    /\ ~IsAsciiAlphanumeric(lex.ch)
    /\ lex' = NextTokenReturn(ReadIdentifierReturn(lex).l,
                  Tok(LookupIdentifier(ReadIdentifierReturn(lex).literal),
                      ReadIdentifierReturn(lex).literal))
    /\ UNCHANGED <<lexemes, progvars>>

\* The default arm, a digit: read_number up to its loop
MatchDigit ==
    /\ lex.at = "match"
    /\ ~IsAlphabetic(lex.ch)
    /\ IsNum(lex.ch)
    /\ lex' = [lex EXCEPT !.at = "read_number", !.pos = lex.position]
    /\ UNCHANGED <<lexemes, progvars>>

\* One iteration of the loop of read_number
ReadNumberStep ==
    /\ lex.at = "read_number"
    /\ IsNum(lex.ch)
    /\ lex' = ReadChar(lex)
    /\ UNCHANGED <<lexemes, progvars>>

\* read_number after its loop, and the end of next_token
ReadNumberExit ==
    /\ lex.at = "read_number"
    /\ ~IsNum(lex.ch)
    /\ lex' = NextTokenReturn(ReadNumberReturn(lex).l,
                  Tok("INT", ReadNumberReturn(lex).literal))
    /\ UNCHANGED <<lexemes, progvars>>

\* The default arm, neither letter nor digit: an ILLEGAL token
MatchIllegal ==
    /\ lex.at = "match"
    /\ lex.ch \notin {"=", "!", Quote} \cup DOMAIN SingleCharTokens
    /\ ~IsAlphabetic(lex.ch)
    /\ ~IsNum(lex.ch)
    /\ lex' = NextTokenReturn(lex, Tok("ILLEGAL", lex.ch))
    /\ UNCHANGED <<lexemes, progvars>>

\* A lexeme: its characters and the token it is
Lx(chars, tok) == [chars |-> chars, tok |-> tok]

LxAssign == Lx(<<"=">>, tASSIGN)
LxEq == Lx(<<"=", "=">>, tEQ)
LxBang == Lx(<<"!">>, tBANG)
LxNeq == Lx(<<"!", "=">>, tNEQ)
LxSemi == Lx(<<";">>, tSEMI)
LxRparen == Lx(<<")">>, tRP)
LxInt5 == Lx(<<"5">>, tINT("5"))
LxInt10 == Lx(<<"1", "0">>, tINT("10"))
LxX1 == Lx(<<"x", "1">>, tID("x1"))
LxLet == Lx(<<"l", "e", "t">>, tLET)
LxLetx == Lx(<<"l", "e", "t", "x">>, tID("letx"))
LxFn == Lx(<<"f", "n">>, tFN)
LxStr == Lx(<<Quote, "a", " ", "b", Quote>>, tSTR("a b"))
LxEmptyStr == Lx(<<Quote, Quote>>, tSTR(""))

LexemeLib ==
    {LxAssign, LxEq, LxBang, LxNeq, LxSemi, LxRparen, LxInt5, LxInt10, LxX1,
     LxLet, LxLetx, LxFn, LxStr, LxEmptyStr}
\* The lexemes an input of LexemeInputs ends with
FinalLexemes == {LxAssign, LxSemi, LxRparen}

\* The largest number of lexemes before the final one
MaxLexemes == 2

WordTypes ==
    {"IDENT", "LET", "FUNCTION", "TRUE", "FALSE", "IF", "ELSE", "RETURN"}

\* Written without whitespace between them, a and b would not be the
\* maximal lexemes: a letter run goes on with letters and digits, a digit
\* run with digits, and = and ! take a following =.
NeedsSpace(a, b) ==
    \/ a.tok.type_ \in WordTypes /\ b.tok.type_ \in WordTypes \cup {"INT"}
    \/ a.tok.type_ = "INT" /\ b.tok.type_ = "INT"
    \/ a.chars \in {<<"=">>, <<"!">>} /\ Head(b.chars) = "="

RECURSIVE Join(_, _)
\* The text of the lexemes ls: whitespace between two of them where it is
\* needed, and everywhere when spaced
Join(ls, spaced) ==
    IF Len(ls) = 1 THEN ls[1].chars
    ELSE ls[1].chars
             \o (IF spaced \/ NeedsSpace(ls[1], ls[2]) THEN <<" ", "\n">>
                 ELSE <<>>)
             \o Join(Tail(ls), spaced)

LexemeLists ==
    {ls \o <<fin>> :
        ls \in UNION {[1..n -> LexemeLib] : n \in 0..MaxLexemes},
        fin \in FinalLexemes}

\* The tokens of a list of lexemes
TokensOf(ls) == [i \in 1..Len(ls) |-> ls[i].tok]

\* Inputs that end inside a string literal: before, a quote, body
\*   x="abc   "a   "   x;"
UnterminatedCases ==
    {[before |-> <<"x", "=">>, body |-> <<"a", "b", "c">>],
     [before |-> <<>>, body |-> <<"a">>],
     [before |-> <<>>, body |-> <<>>],
     [before |-> <<"x", ";">>, body |-> <<>>]}
Unterminated(u) == u.before \o <<Quote>> \o u.body

\* Inputs that end in a letter, a digit, whitespace, a quote, and the other
\* characters of next_token's match:
\*   x   x;y   5   x=5   x;_   x;\n   "ab"   @;   -/*<>(),+{};
EndingInputs ==
    {<<"x">>, <<"x", ";", "y">>, <<"5">>, <<"x", "=", "5">>,
     <<"x", ";", " ">>, <<"x", ";", "\n">>,
     <<Quote, "a", "b", Quote>>,
     <<"@", ";">>,
     <<"-", "/", "*", "<", ">", "(", ")", ",", "+", "{", "}", ";">>}
    \cup {Unterminated(u) : u \in UnterminatedCases}

LexInit ==
    /\ \/ \E ls \in LexemeLists, spaced \in BOOLEAN :
             /\ lex = InitLexer(Join(ls, spaced))
             /\ lexemes = Some(TokensOf(ls))
       \/ /\ lex \in {InitLexer(input) : input \in EndingInputs}
          /\ lexemes = None
    /\ pc = "lex"
    /\ src = <<>>
    /\ par = ParserNew(<<>>)
    /\ program = <<>>
    /\ env = NewEnvironment
    /\ trace = <<>>
    /\ result = ObjNull

LexNext ==
    \/ NextTokenAtEnd
    \/ NextTokenEnter
    \/ SkipWhitespaceStep
    \/ SkipWhitespaceExit
    \/ MatchAssignOrBang
    \/ MatchSingleChar
    \/ MatchQuote
    \/ ReadStringStep
    \/ ReadStringReturn
    \/ ReadStringPanic
    \/ MatchLetter
    \/ ReadIdentifierStep
    \/ ReadIdentifierExit
    \/ MatchDigit
    \/ ReadNumberStep
    \/ ReadNumberExit
    \/ MatchIllegal

LexSpec == LexInit /\ [][LexNext]_vars

-----------------------------------------------------------------------------
(* The state machine: the harness of the tests of eval.rs (eval.rs:504-   *)
(* 513): Parser::new, parse_program, then eval_prog on the program.        *)
(*   pc       "parse": in the loop of parse_program; "eval": in the loop   *)
(*            of eval_prog; "done": eval_prog has returned; "panic"        *)
(*   par      the parser                                                   *)
(*   program  the statements pushed by parse_program                       *)
(*   env      the environment passed to eval_prog                          *)
(*   trace    what eval returned for each top-level statement so far       *)
(*   result   eval_prog's `result` (line 12), and what it returns          *)

Init ==
    /\ src \in Sources
    /\ pc = "parse"
    /\ par = ParserNew(src)
    /\ program = <<>>
    /\ env = NewEnvironment
    /\ trace = <<>>
    /\ result = ObjNull
    /\ lex = NoLexer
    /\ lexemes = None

\* parse_program: the loop guard.  lex.position < lex.input.len() holds in
\* every state of the lexer (read_char, lexer.rs:27-36, only moves position
\* to a read_position below the length), so the guard is ct != EOF.
InParseLoop == pc = "parse" /\ par.cur.type_ # "EOF"

\* One iteration of the loop of parse_program that pushes a statement
ParseProgramStmt ==
    /\ InParseLoop
    /\ LET stmt == ParseStatement(par)
       IN  /\ ~stmt.p.abort
           /\ stmt.node # None
           /\ program' = Append(program, stmt.node)
           /\ par' = NextToken(stmt.p)
    /\ UNCHANGED <<lex, lexemes>>
    /\ UNCHANGED <<pc, src, env, trace, result>>

\* `_ => break`: the statement did not parse; parse_program returns
ParseProgramBreak ==
    /\ InParseLoop
    /\ LET stmt == ParseStatement(par)
       IN  /\ ~stmt.p.abort
           /\ stmt.node = None
           /\ par' = stmt.p
    /\ pc' = "eval"
    /\ UNCHANGED <<lex, lexemes>>
    /\ UNCHANGED <<src, program, env, trace, result>>

\* todo!() in parse_if_expression
ParseProgramPanic ==
    /\ InParseLoop
    /\ LET stmt == ParseStatement(par)
       IN  /\ stmt.p.abort
           /\ par' = stmt.p
    /\ pc' = "panic"
    /\ UNCHANGED <<lex, lexemes>>
    /\ UNCHANGED <<src, program, env, trace, result>>

\* The loop of parse_program ends at EOF
ParseProgramReturn ==
    /\ pc = "parse"
    /\ par.cur.type_ = "EOF"
    /\ pc' = "eval"
    /\ UNCHANGED <<lex, lexemes>>
    /\ UNCHANGED <<src, par, program, env, trace, result>>

InEvalLoop == pc = "eval" /\ Len(trace) < Len(program)

\* One iteration of the loop of eval_prog: `_ => ()`
EvalProgStmt ==
    /\ InEvalLoop
    /\ LET r == Eval(program[Len(trace) + 1], env)
       IN  /\ ~r.abort
           /\ Type(r.obj) \notin {"RETURN_VALUE_OBJ", "ERROR"}
           /\ trace' = Append(trace, r.obj)
           /\ env' = r.env
    /\ UNCHANGED <<lex, lexemes>>
    /\ UNCHANGED <<pc, src, par, program, result>>

\* eval_prog without the `return *x` of its Return arm: the loop goes on
EvalProgReturnValueGoesOn ==
    /\ InEvalLoop
    /\ LET r == Eval(program[Len(trace) + 1], env)
       IN  /\ ~r.abort
           /\ Type(r.obj) = "RETURN_VALUE_OBJ"
           /\ trace' = Append(trace, r.obj)
           /\ env' = r.env
           /\ result' = r.obj.v
    /\ UNCHANGED <<lex, lexemes>>
    /\ UNCHANGED <<pc, src, par, program>>

\* Some(Object::Return(x)) => return *x
EvalProgReturnValue ==
    /\ InEvalLoop
    /\ LET r == Eval(program[Len(trace) + 1], env)
       IN  /\ ~r.abort
           /\ Type(r.obj) = "RETURN_VALUE_OBJ"
           /\ trace' = Append(trace, r.obj)
           /\ env' = r.env
           /\ result' = r.obj.v
    /\ pc' = "done"
    /\ UNCHANGED <<lex, lexemes>>
    /\ UNCHANGED <<src, par, program>>

\* Some(Object::Error(x)) => return Object::Error(x)
EvalProgError ==
    /\ InEvalLoop
    /\ LET r == Eval(program[Len(trace) + 1], env)
       IN  /\ ~r.abort
           /\ Type(r.obj) = "ERROR"
           /\ trace' = Append(trace, r.obj)
           /\ env' = r.env
           /\ result' = r.obj
    /\ pc' = "done"
    /\ UNCHANGED <<lex, lexemes>>
    /\ UNCHANGED <<src, par, program>>

\* A panic inside eval (a zero divisor, a missing argument)
EvalProgPanic ==
    /\ InEvalLoop
    /\ Eval(program[Len(trace) + 1], env).abort
    /\ pc' = "panic"
    /\ UNCHANGED <<lex, lexemes>>
    /\ UNCHANGED <<src, par, program, env, trace, result>>

\* The loop of eval_prog is over: `return result`
EvalProgReturn ==
    /\ pc = "eval"
    /\ Len(trace) = Len(program)
    /\ pc' = "done"
    /\ UNCHANGED <<lex, lexemes>>
    /\ UNCHANGED <<src, par, program, env, trace, result>>

Next ==
    \/ ParseProgramStmt
    \/ ParseProgramBreak
    \/ ParseProgramPanic
    \/ ParseProgramReturn
    \/ EvalProgStmt
    \/ EvalProgReturnValue
    \/ EvalProgError
    \/ EvalProgPanic
    \/ EvalProgReturn

Spec == Init /\ [][Next]_vars


-----------------------------------------------------------------------------
(* The Environment on its own (object.rs:55-99): new, then calls of set    *)
(* and new_enclosed.  Under EnvSpec                                        *)
(*   env     the environment the calls are made on                         *)
(*   pc      the last call: "new", "set" or "new_enclosed"                 *)
(*   src     <<name>>, the name passed to the last set                     *)
(*   result  the object the last set returned                              *)

EnvNames == {"a", "b"}
EnvObjects == {ObjInteger(1), ObjInteger(2)}

\* The largest number of environments enclosing env
MaxDepth == 2

RECURSIVE Depth(_)
Depth(e) == IF e.outer = None THEN 0 ELSE 1 + Depth(e.outer)

EnvInit ==
    /\ env = NewEnvironment
    /\ pc = "new"
    /\ src = <<>>
    /\ result = ObjNull
    /\ par = ParserNew(<<>>)
    /\ program = <<>>
    /\ trace = <<>>
    /\ lex = NoLexer
    /\ lexemes = None

\* env.set(name, obj)
EnvSetCall ==
    /\ \E name \in EnvNames, obj \in EnvObjects :
          /\ env' = EnvSet(env, name, obj)
          /\ src' = <<name>>
          /\ result' = obj
    /\ pc' = "set"
    /\ UNCHANGED <<par, program, trace, lex, lexemes>>

\* env = env.new_enclosed(env)
EnvNewEnclosedCall ==
    /\ Depth(env) < MaxDepth
    /\ env' = NewEnclosed(env)
    /\ pc' = "new_enclosed"
    /\ UNCHANGED <<src, result, par, program, trace, lex, lexemes>>

EnvNext == EnvSetCall \/ EnvNewEnclosedCall

EnvSpec == EnvInit /\ [][EnvNext]_vars

-----------------------------------------------------------------------------
(* The read-eval-print loop of main (main.rs:12-37).  Under ReplSpec       *)
(*   env      the environment of the session                               *)
(*   pc       "repl": at the top of the loop; "repl_eof": at the top of    *)
(*            the loop, the standard input used up; "hang": inside a call  *)
(*            of next_token that never returns; "panic"                    *)
(*   src      the tokens of the last line read                             *)
(*   par, program   the parser after parse_program on that line, and the   *)
(*            program it returned                                          *)
(*   trace    for every line read and parsed, "error" when the line was    *)
(*            not evaluated and "evaluated" when it was                    *)
(*   result   what eval_prog returned for the last line evaluated          *)

RECURSIVE ParseProgramLoop(_, _)
\* The loop of parse_program, from the parser p with the statements prog
\* pushed so far: the parser and the program when the loop is left
ParseProgramLoop(p, prog) ==
    IF p.cur.type_ = "EOF" THEN [p |-> p, program |-> prog]
    ELSE Bind(ParseStatement(p), LAMBDA stmt :
         IF stmt.p.abort \/ stmt.node = None
         THEN [p |-> stmt.p, program |-> prog]
         ELSE ParseProgramLoop(NextToken(stmt.p), Append(prog, stmt.node)))

\* Parser::new and parse_program on the tokens of a line
ParseProgram(toks) == ParseProgramLoop(ParserNew(toks), <<>>)

RECURSIVE EvalProgLoop(_, _, _)
\* The loop of eval_prog from the i-th statement on
EvalProgLoop(prog, i, e) ==
    IF i > Len(prog) THEN Ret(ObjNull, e)
    ELSE Bind(Eval(prog[i], e), LAMBDA r :
         IF r.abort THEN r
         ELSE IF Type(r.obj) = "RETURN_VALUE_OBJ" THEN Ret(r.obj.v, r.env)
         ELSE IF Type(r.obj) = "ERROR" THEN Ret(r.obj, r.env)
         ELSE EvalProgLoop(prog, i + 1, r.env))

EvalProg(prog, e) == EvalProgLoop(prog, 1, e)

\* read_line keeps the newline that ends the line.  The token next_token is
\* asked for after the last one of such a line is never returned: the
\* lexer is on the newline, and skip_whitespace (lexer.rs:165-169) does not
\* leave its loop once read_char has set `end`.  The parser has asked for
\* that token exactly when its peek token is EOF.
LineHangs(p, newline) == newline /\ p.peek.type_ = "EOF"

\* The lines of a session; each ends in a punctuation character.
\*   let a = 5;   let z = 7;   let = 5;   let x 5;   let a = 5; let = 5;
\*   let x = (1 + 2;   5 / 0;   if () { }   let x = * 5;
\*   let;   let z = 7; let x 5;   let x = f(a;
ReplLines ==
    {SLetA, SLetZ, SrcLetNoName, SrcLetNoAssign, SLetA \o SrcLetNoName,
     SrcGroupNoRparen, SrcDivZero, SrcIfNoCond, LetNoPrefix(tSTAR),
     SrcLetOnly, SLetZ \o SrcLetNoAssign, SrcCallNoRparen}

\* The largest number of lines parsed in a session
MaxLines == 3

ReplInit ==
    /\ env = NewEnvironment
    /\ pc = "repl"
    /\ src = <<>>
    /\ par = ParserNew(<<>>)
    /\ program = <<>>
    /\ trace = <<>>
    /\ result = ObjNull
    /\ lex = NoLexer
    /\ lexemes = None

AtPrompt == pc = "repl" /\ Len(trace) < MaxLines
AfterLine(newline) == IF newline THEN "repl" ELSE "repl_eof"

\* read_line returns an empty string at the end of the standard input, and
\* init_lexer reads input.as_bytes()[0]
ReplEndOfInput ==
    /\ pc \in {"repl", "repl_eof"}
    /\ pc' = "panic"
    /\ UNCHANGED <<src, par, program, env, trace, result, lex, lexemes>>

\* A line on which next_token does not return
ReplHang ==
    /\ AtPrompt
    /\ \E line \in ReplLines \cup {<<>>}, newline \in BOOLEAN :
          /\ LineHangs(ParseProgram(line).p, newline)
          /\ src' = line
    /\ pc' = "hang"
    /\ UNCHANGED <<par, program, env, trace, result, lex, lexemes>>

\* A line on which the parser panics (todo!() in parse_if_expression)
ReplParsePanic ==
    /\ AtPrompt
    /\ \E line \in ReplLines, newline \in BOOLEAN :
          /\ ParseProgram(line).p.abort
          /\ src' = line
    /\ pc' = "panic"
    /\ UNCHANGED <<par, program, env, trace, result, lex, lexemes>>

\* The line of ReplError evaluated all the same
ReplErrorEvaluated ==
    /\ AtPrompt
    /\ \E line \in ReplLines, newline \in BOOLEAN :
          /\ ~LineHangs(ParseProgram(line).p, newline)
          /\ ~ParseProgram(line).p.abort
          /\ ParseProgram(line).p.errors # <<>>
          /\ ~EvalProg(ParseProgram(line).program, env).abort
          /\ src' = line
          /\ par' = ParseProgram(line).p
          /\ program' = ParseProgram(line).program
          /\ pc' = AfterLine(newline)
          /\ env' = EvalProg(ParseProgram(line).program, env).env
          /\ result' = EvalProg(ParseProgram(line).program, env).obj
    /\ trace' = Append(trace, "evaluated")
    /\ UNCHANGED <<lex, lexemes>>

\* parser.errors().len() != 0: println!("error"); continue
ReplError ==
    /\ AtPrompt
    /\ \E line \in ReplLines, newline \in BOOLEAN :
          /\ ~LineHangs(ParseProgram(line).p, newline)
          /\ ~ParseProgram(line).p.abort
          /\ ParseProgram(line).p.errors # <<>>
          /\ src' = line
          /\ par' = ParseProgram(line).p
          /\ program' = ParseProgram(line).program
          /\ pc' = AfterLine(newline)
    /\ trace' = Append(trace, "error")
    /\ UNCHANGED <<env, result, lex, lexemes>>

\* No parser error: eval_prog(program, &mut env) returns
ReplEvaluated ==
    /\ AtPrompt
    /\ \E line \in ReplLines, newline \in BOOLEAN :
          /\ ~LineHangs(ParseProgram(line).p, newline)
          /\ ~ParseProgram(line).p.abort
          /\ ParseProgram(line).p.errors = <<>>
          /\ ~EvalProg(ParseProgram(line).program, env).abort
          /\ src' = line
          /\ par' = ParseProgram(line).p
          /\ program' = ParseProgram(line).program
          /\ pc' = AfterLine(newline)
          /\ env' = EvalProg(ParseProgram(line).program, env).env
          /\ result' = EvalProg(ParseProgram(line).program, env).obj
    /\ trace' = Append(trace, "evaluated")
    /\ UNCHANGED <<lex, lexemes>>

\* No parser error: eval_prog panics
ReplEvalPanic ==
    /\ AtPrompt
    /\ \E line \in ReplLines, newline \in BOOLEAN :
          /\ ~LineHangs(ParseProgram(line).p, newline)
          /\ ~ParseProgram(line).p.abort
          /\ ParseProgram(line).p.errors = <<>>
          /\ EvalProg(ParseProgram(line).program, env).abort
          /\ src' = line
          /\ par' = ParseProgram(line).p
          /\ program' = ParseProgram(line).program
    /\ pc' = "panic"
    /\ UNCHANGED <<env, trace, result, lex, lexemes>>

ReplNext ==
    \/ ReplEndOfInput
    \/ ReplHang
    \/ ReplParsePanic
    \/ ReplError
    \/ ReplEvaluated
    \/ ReplEvalPanic

ReplSpec == ReplInit /\ [][ReplNext]_vars

-----------------------------------------------------------------------------
(* Properties.                                                             *)

\* parse_program has returned
Parsed == pc \in {"eval", "done"}
\* eval_prog has returned; result is what it returned
Done == pc = "done"

IsInteger(obj, n) == Type(obj) = "INTEGER_OBJ" /\ obj.v = n
IsNull(obj) == Type(obj) = "NULL"
SameObject(a, b) == Type(a) = Type(b) /\ a = b
IsReturnOrError(obj) == Type(obj) \in {"RETURN_VALUE_OBJ", "ERROR"}

\* C1: when no top-level statement evaluates to a Return or an Error object,
\* eval_prog returns the value of the last top-level statement, and Null for
\* the empty program.
C1_LastStatementValue ==
    (Done /\ \A k \in 1..Len(trace) : ~IsReturnOrError(trace[k]))
        => IF trace = <<>> THEN IsNull(result)
           ELSE SameObject(result, trace[Len(trace)])

\* The value of the last statement of each body of FnBodies, x being 3 and
\* y being 4
LastStatementValue(body) ==
    CASE body = BodyXPlusY -> ObjInteger(7)
      [] body = BodyX -> ObjInteger(3)
      [] body = BodyYSemi -> ObjInteger(4)
      [] body = BodyXTimesY -> ObjInteger(12)
      [] body = BodyLetZ -> ObjInteger(3)
      [] body = BodyEmpty -> ObjNull

\* C2: a block that executes no return statement and produces no error
\* yields the value of its last statement, Null when it is empty: the call
\* add(3, 4) of fn(x, y) { body } yields the value of the body's last
\* statement, and if (true) { 10 } yields 10.
C2_BlockValue ==
    /\ \A body \in FnBodies :
          (Done /\ src = CallAdd(body))
              => /\ Len(trace) = 2
                 /\ SameObject(trace[2], LastStatementValue(body))
    /\ (Done /\ src = SrcIfTen)
          => Len(trace) = 1 /\ IsInteger(trace[1], 10)

\* The names of the let statements among the first k top-level statements
TopLetNames(k) ==
    {program[i].name.value :
        i \in {j \in 1..k : program[j].kind = "LetStatement"}}

\* C3: when the k-th top-level statement evaluates to Return(v), eval_prog
\* has returned v, no later statement was evaluated, and a later let
\* statement has bound nothing.
C3_ReturnEndsProgram ==
    \A k \in 1..Len(trace) :
        Type(trace[k]) = "RETURN_VALUE_OBJ"
            => /\ Done
               /\ k = Len(trace)
               /\ SameObject(result, trace[k].v)
               /\ \A j \in (k + 1)..Len(program) :
                     (/\ program[j].kind = "LetStatement"
                      /\ program[j].name.value \notin TopLetNames(k))
                         => program[j].name.value \notin DOMAIN env.store

\* if (1 < 2) { return 10; } return 20; let z = 7;   has returned 10
C3_Witness ==
    /\ Done
    /\ src = SIfReturn10 \o SReturn20 \o SLetZ
    /\ Len(program) = 3
    /\ Len(trace) = 1
    /\ IsInteger(result, 10)

\* C4: the object eval_prog returns is never a Return object, and neither
\* is the object a call expression produces (here the value bound to r by
\* let r = f();).
C4_NoReturnObject ==
    /\ Done => Type(result) # "RETURN_VALUE_OBJ"
    /\ (src \in {SrcCallReturn, SrcCallReturnIfReturn}
            /\ "r" \in DOMAIN env.store)
          => Type(env.store["r"]) # "RETURN_VALUE_OBJ"

IsErrorX(obj) ==
    Type(obj) = "ERROR" /\ obj.msg = "identifier not found: x"

\* C5: the Error produced by evaluating the unbound identifier x is what
\* every enclosing step yields: the statement that holds x evaluates to that
\* Error, and eval_prog returns it.
C5_ErrorPropagates ==
    (Done /\ src \in ErrorSources)
        => IsErrorX(result) /\ IsErrorX(trace[Len(trace)])


\* The value of a closure body when x = a, y = b and z = c
ClosureValue(body, a, b, c) ==
    CASE body = "x" -> a
      [] body = "y" -> b
      [] body = "z" -> c
      [] body = "x - y" -> a - b
      [] body = "y - z" -> b - c
      [] body = "x - z" -> a - c

Level(op) ==
    CASE op.literal \in {"==", "!="} -> 1
      [] op.literal \in {"<", ">"} -> 2
      [] op.literal \in {"+", "-"} -> 3
      [] op.literal \in {"*", "/"} -> 4

\* (a op1 b) op2 c
GroupedLeft(op1, op2) ==
    InfixExpression(op2.literal,
        InfixExpression(op1.literal, Identifier("a"), Identifier("b")),
        Identifier("c"))
\* a op1 (b op2 c)
GroupedRight(op1, op2) ==
    InfixExpression(op1.literal, Identifier("a"),
        InfixExpression(op2.literal, Identifier("b"), Identifier("c")))
\* f(b)
CallFB == CallExpression(Identifier("f"), Some(<<Identifier("b")>>))
LetX(value) == LetStatement(Identifier("x"), value)

\* C7: two infix operators of the same precedence level associate to the
\* left: let x = a op1 b op2 c; parses to (a op1 b) op2 c.
C7_LeftAssociative ==
    \A op1 \in InfixOpToks, op2 \in InfixOpToks :
        (Parsed /\ src = LetChain(op1, op2) /\ Level(op1) = Level(op2))
            => program = <<LetX(GroupedLeft(op1, op2))>>

\* C8: in the value of a let or return statement the operator of the higher
\* level takes the operand between two operators of different levels, a
\* prefix operator binds tighter than every infix operator, and a call
\* binds tighter than every infix and prefix operator.
C8_Precedence ==
    /\ \A op1 \in InfixOpToks, op2 \in InfixOpToks :
          /\ (Parsed /\ src = LetChain(op1, op2) /\ Level(op1) > Level(op2))
                => program = <<LetX(GroupedLeft(op1, op2))>>
          /\ (Parsed /\ src = LetChain(op1, op2) /\ Level(op1) < Level(op2))
                => program = <<LetX(GroupedRight(op1, op2))>>
          /\ (Parsed /\ src = ReturnChain(op1, op2)
                     /\ Level(op1) > Level(op2))
                => program = <<ReturnStatement(GroupedLeft(op1, op2))>>
          /\ (Parsed /\ src = ReturnChain(op1, op2)
                     /\ Level(op1) < Level(op2))
                => program = <<ReturnStatement(GroupedRight(op1, op2))>>
    /\ \A pre \in PrefixOpToks, op \in InfixOpToks :
          (Parsed /\ src = LetPrefixChain(pre, op))
              => program =
                    <<LetX(InfixExpression(op.literal,
                          PrefixExpression(pre.literal, Identifier("a")),
                          Identifier("b")))>>
    /\ \A op \in InfixOpToks :
          (Parsed /\ src = LetOpCall(op))
              => program =
                    <<LetX(InfixExpression(op.literal, Identifier("a"),
                                           CallFB))>>
    /\ \A pre \in PrefixOpToks :
          (Parsed /\ src = LetPrefixCall(pre))
              => program = <<LetX(PrefixExpression(pre.literal, CallFB))>>

\* let x = a + b * c;   has parsed to a + (b * c)
C8_Witness ==
    /\ Parsed
    /\ src = LetChain(tPLUS, tSTAR)
    /\ program = <<LetX(GroupedRight(tPLUS, tSTAR))>>

\* C9: an expression statement is parsed at LOWEST whatever its first token
\* is: each of (1 + 2) op 3;  -5 op 3;  !true op false;  5 op 3;  parses to
\* one expression statement holding one infix expression, the statement
\* parse_expression(LOWEST) gives.
C9_ExpressionStatementAtLowest ==
    (Parsed /\ src \in ExpressionStatementSources)
        => /\ Len(program) = 1
           /\ program[1].kind = "ExpressionStatement"
           /\ program[1].expr.kind = "InfixExpression"
           /\ program[1] = ParseExpressionStatementAtLowest(ParserNew(src)).node

\* C10: every failed expect_peek(X) has appended the one message `expected
\* next token to be X, got Y`, has consumed no token, and the production
\* that called it has returned no node; so the value of
\* let x = if (a) { b } else c;   is absent.
C10_ExpectPeekFailure ==
    /\ \A i \in 1..Len(par.fails) :
          /\ par.fails[i].msgs =
                <<"expected next token to be " \o Display(par.fails[i].want)
                    \o ", got " \o Display(par.fails[i].got)>>
          /\ par.fails[i].consumed = 0
          /\ ~par.fails[i].moved
          /\ ~par.fails[i].returned
    /\ (Parsed /\ src = SrcElseNoLbrace) => program[1].value = None

\* The message the parser is to record when parse_expression is entered with
\* the token t as current token
NoPrefixMessage(t) ==
    "no prefix parse function for " \o Display(t.type_) \o " found"

InErrors(msg) == \E i \in 1..Len(par.errors) : par.errors[i] = msg

\* C11: when parse_expression is entered with a current token that has no
\* prefix parse function (here the token after `let x =`, after `return`, or
\* the first token of an expression statement; EOF after `let x =`), the
\* parser has appended `no prefix parse function for X found`, so its error
\* list is not empty when parse_program has returned.
C11_NoPrefixError ==
    /\ \A t \in NoPrefixToks :
          (Parsed /\ src \in {LetNoPrefix(t), ReturnNoPrefix(t),
                              StmtNoPrefix(t)})
              => InErrors(NoPrefixMessage(t)) /\ par.errors # <<>>
    /\ (Parsed /\ src = SrcLetEOF)
          => InErrors(NoPrefixMessage(EOFTok)) /\ par.errors # <<>>

IsNone(opt) == opt.kind = "None"

\* A node whose required slots are all present, and so on below it.  The
\* value of a return statement and the alternative of an if-expression may
\* be absent.
RECURSIVE WellFormed(_)
WellFormed(n) ==
    CASE n.kind = "None" -> FALSE
      [] n.kind = "LetStatement" -> ~IsNone(n.name) /\ WellFormed(n.value)
      [] n.kind = "ReturnStatement" -> IsNone(n.value) \/ WellFormed(n.value)
      [] n.kind = "ExpressionStatement" -> WellFormed(n.expr)
      [] n.kind = "BlockStatement" ->
            \A i \in 1..Len(n.statements) : WellFormed(n.statements[i])
      [] n.kind \in {"Identifier", "IntegerLiteral", "StringLiteral",
                     "Boolean"} -> TRUE
      [] n.kind = "PrefixExpression" -> WellFormed(n.right)
      [] n.kind = "InfixExpression" ->
            WellFormed(n.left) /\ WellFormed(n.right)
      [] n.kind = "IfExpression" ->
            /\ WellFormed(n.cond)
            /\ WellFormed(n.consequence)
            /\ IsNone(n.alternative) \/ WellFormed(n.alternative)
      [] n.kind = "FunctionLiteral" ->
            /\ ~IsNone(n.parameters)
            /\ \A i \in 1..Len(n.parameters.v) : WellFormed(n.parameters.v[i])
            /\ WellFormed(n.body)
      [] n.kind = "CallExpression" ->
            /\ WellFormed(n.func)
            /\ ~IsNone(n.args)
            /\ \A i \in 1..Len(n.args.v) : WellFormed(n.args.v[i])

\* C12: every node of the Program is well formed: a let statement has its
\* name and value, an expression statement its expression, a prefix
\* expression its operand, an infix expression both operands, an
\* if-expression its condition and consequence, a function literal its
\* parameter list and body, a call its callee and argument list.
C12_WellFormedProgram ==
    \A i \in 1..Len(program) : WellFormed(program[i])

\* let z = 7;
LetZ7 == LetStatement(Identifier("z"), IntegerLiteral(7))

\* C13: after a top-level statement that fails to parse, parse_program goes
\* on with the following statements: in each of
\*   let = 5; let z = 7;    let x 5; let z = 7;    let; let z = 7; b;
\*   let a = 5; let = 5; let z = 7;
\* the well-formed statements after the failed one are in the Program, in
\* source order.
C13_ContinuesAfterFailure ==
    /\ (Parsed /\ src \in {SrcLetNoName \o SLetZ, SrcLetNoAssign \o SLetZ})
          => \E i \in 1..Len(program) : program[i] = LetZ7
    /\ (Parsed /\ src = SrcLetOnly \o SLetZ \o SExprB)
          => \E i \in 1..Len(program) : \E j \in (i + 1)..Len(program) :
                /\ program[i] = LetZ7
                /\ program[j] = ExpressionStatement(Identifier("b"))
    /\ (Parsed /\ src = SLetA \o SrcLetNoName \o SLetZ)
          => \E i \in 1..Len(program) : \E j \in (i + 1)..Len(program) :
                /\ program[i] = LetStatement(Identifier("a"),
                                             IntegerLiteral(5))
                /\ program[j] = LetZ7

\* The type name of the object a literal token evaluates to
OperandType(t) ==
    CASE t.type_ = "INT" -> "INTEGER_OBJ"
      [] t.type_ \in {"TRUE", "FALSE"} -> "BOOLEAN_OBJ"
      [] t.type_ = "STRING" -> "STRING"

IsErrorMsg(obj, msg) == Type(obj) = "ERROR" /\ obj.msg = msg

\* C17: an infix expression whose operands are not both integers yields
\* `type mismatch: <LTYPE> <RTYPE>` when the operand types differ, and
\* `unknown operator: <LTYPE> <op> <RTYPE>` when the types are the same and
\* the operator is not defined for them: any operator on two booleans, any
\* operator but + on two strings.
C17_InfixErrors ==
    \A l \in InfixOperandToks, r \in InfixOperandToks, op \in InfixOpToks :
        (Done /\ src = MixedInfix(l, op, r))
            => /\ OperandType(l) # OperandType(r)
                    => IsErrorMsg(result,
                          "type mismatch: " \o OperandType(l) \o " "
                              \o OperandType(r))
               /\ (/\ OperandType(l) = OperandType(r)
                   /\ \/ OperandType(l) = "BOOLEAN_OBJ"
                      \/ OperandType(l) = "STRING" /\ op # tPLUS)
                    => IsErrorMsg(result,
                          "unknown operator: " \o OperandType(l) \o " "
                              \o op.literal \o " " \o OperandType(r))

\* The type name of the object each operand of MinusOperands evaluates to
MinusOperandType(v) ==
    CASE v \in {<<tTRUE>>, <<tFALSE>>} -> "BOOLEAN_OBJ"
      [] v = <<tSTR("s")>> -> "STRING"
      [] Head(v) = tFN -> "FUNCTION"
      [] Head(v) = tIF -> "NULL"

\* C18: prefix - applied to an operand that is neither an integer nor an
\* Error yields the Error `unknown operator: -<TYPE>` (in the format
\* `unknown operator: <op> <TYPE>`, `unknown operator: - <TYPE>`).
C18_MinusNonInteger ==
    \A v \in MinusOperands :
        (Done /\ src = LetMinus(v))
            => /\ Type(result) = "ERROR"
               /\ result.msg \in
                     {"unknown operator: -" \o MinusOperandType(v),
                      "unknown operator: - " \o MinusOperandType(v)}

\* The conditions of IfConds that evaluate to Boolean true
CondIsTrue(c) == c \in {<<tTRUE>>, <<tINT("1"), tLT, tINT("2")>>}

Bound(name) == name \in DOMAIN env.store

\* C19: an if-expression evaluates its consequence exactly when its
\* condition is Boolean true; for every other condition that is no Error
\* (false, Null, 0, 5, a string, a function) it evaluates its alternative
\* when there is one and yields Null when there is none.  The consequence
\* binds c and returns 1, the alternative binds d and returns 2.
C19_IfTruthiness ==
    \A c \in IfConds :
        /\ (Done /\ src = IfElse(c))
              => IF CondIsTrue(c)
                 THEN IsInteger(result, 1) /\ Bound("c") /\ ~Bound("d")
                 ELSE IsInteger(result, 2) /\ Bound("d") /\ ~Bound("c")
        /\ (Done /\ src = IfOnly(c))
              => IF CondIsTrue(c)
                 THEN IsInteger(result, 1) /\ Bound("c")
                 ELSE /\ IsNull(result)
                      /\ Len(trace) = 1 /\ IsNull(trace[1])
                      /\ ~Bound("c")

\* if (5) { let c = 1; return 1; } else { let d = 2; return 2; }
\* has returned 2
C19_Witness ==
    /\ Done
    /\ src = IfElse(<<tINT("5")>>)
    /\ IsInteger(result, 2)
    /\ Bound("d")

\* What evaluating the arguments args from left to right comes to: the
\* first argument that is an Error or panics decides; "ok" when there is
\* none.
RECURSIVE ArgsOutcome(_)
ArgsOutcome(args) ==
    IF args = <<>> THEN "ok"
    ELSE IF Head(args) \in {"x", "y"}
    THEN "identifier not found: " \o Head(args)
    ELSE IF Head(args) = "5/0" THEN "panic"
    ELSE ArgsOutcome(Tail(args))

\* What the call callee(args) comes to when the callee is evaluated first
\* and the arguments after it, from left to right, up to the first Error
CallOutcome(c, args) ==
    IF c = "g" THEN "identifier not found: g"
    ELSE IF ArgsOutcome(args) # "ok" THEN ArgsOutcome(args)
    ELSE CASE c = "5" -> "not a function: INTEGER_OBJ"
           [] c = "true" -> "not a function: BOOLEAN_OBJ"
           [] c = "f" -> "1"

\* C20: a call evaluates its callee first and then its arguments from left
\* to right; the first argument that evaluates to an Error ends the
\* evaluation of the arguments (a later 5 / 0 does not panic) and is the
\* result of the call; `not a function: <TYPE>` is the result only when
\* every argument evaluated without Error.  The value of the call is what the
\* statement callee(args); evaluates to, the last entry of trace.
C20_CallOrder ==
    \A cs \in CallOrderCases :
        src = CallOrder(cs.callee, cs.args)
            => IF CallOutcome(cs.callee, cs.args) = "panic"
               THEN ~Done
               ELSE /\ pc # "panic"
                    /\ Done
                         => IF CallOutcome(cs.callee, cs.args) = "1"
                            THEN IsInteger(trace[Len(trace)], 1)
                            ELSE IsErrorMsg(trace[Len(trace)],
                                     CallOutcome(cs.callee, cs.args))

\* 5(x, 5 / 0);   has returned the Error of x
C20_Witness ==
    /\ Done
    /\ src = CallOrder("5", <<"x", "5/0">>)
    /\ IsErrorMsg(trace[Len(trace)], "identifier not found: x")

\* next_token is in one of its loops, the guard of the loop holds, and the
\* read_char of the loop body changes nothing: the loop never ends.
LoopSpins ==
    /\ \/ lex.at = "skip_whitespace" /\ IsAsciiWhitespace(lex.ch)
       \/ lex.at = "read_identifier" /\ IsAsciiAlphanumeric(lex.ch)
       \/ lex.at = "read_number" /\ IsNum(lex.ch)
       \/ lex.at = "read_string" /\ ~(lex.ch = Quote \/ lex.end)
    /\ ReadChar(lex) = lex

\* C14: for every non-empty input, whatever its last character, each call
\* of next_token terminates: no loop of the lexer spins and no call panics;
\* and every call after the first one that returned EOF returns EOF.
C14_NextTokenTerminates ==
    /\ ~LoopSpins
    /\ lex.at # "panic"
    /\ \A i \in 1..Len(lex.out) : \A j \in i..Len(lex.out) :
          lex.out[i] = EOFTok => lex.out[j] = EOFTok

\* C15: for an input made of punctuation, operators, integers, identifiers,
\* keywords and string literals, with optional whitespace between them and
\* ending in a punctuation character, the tokens next_token returns are the
\* lexemes in order, each with its kind and literal, and EOF after them: no
\* call panics, no loop spins, and EOF is returned only after the last
\* lexeme.
C15_MaximalLexemes ==
    lexemes.kind = "Some"
        => /\ lex.at # "panic"
           /\ ~LoopSpins
           /\ \A i \in 1..Len(lex.out) :
                 lex.out[i] = IF i <= Len(lexemes.v) THEN lexemes.v[i]
                              ELSE EOFTok
           /\ (lex.at = "idle" /\ lex.end)
                 => Len(lex.out) >= Len(lexemes.v)

\* letx==;   has been lexed to IDENT letx, EQ, SEMICOLON and two EOF
C15_Witness ==
    /\ lex.input = <<"l", "e", "t", "x", "=", "=", ";">>
    /\ lex.out = <<tID("letx"), tEQ, tSEMI, EOFTok, EOFTok>>

\* C16: for an input that ends inside a string literal, at least one
\* character after the opening quote, the STRING token next_token returns
\* holds every character between the opening quote and the end of the
\* input.
C16_UnterminatedString ==
    \A u \in UnterminatedCases :
        (u.body # <<>> /\ lex.input = Unterminated(u))
            => \A i \in 1..Len(lex.out) :
                  lex.out[i].type_ = "STRING"
                      => lex.out[i].literal = StrCat(u.body)

\* The stores of e and of the environments that enclose it, innermost first
RECURSIVE Chain(_)
Chain(e) == IF e.outer = None THEN <<e.store>> ELSE <<e.store>> \o Chain(e.outer)

\* The levels of the chain of e that bind name
BindingLevels(e, name) ==
    {i \in 1..Len(Chain(e)) : name \in DOMAIN Chain(e)[i]}

\* Every name is looked up as the chain says: the binding of the innermost
\* environment that binds it, absent when none does
GetIsInnermost ==
    \A name \in EnvNames :
        IF BindingLevels(env, name) = {} THEN EnvGet(env, name) = None
        ELSE \E i \in BindingLevels(env, name) :
                /\ \A j \in BindingLevels(env, name) : i <= j
                /\ EnvGet(env, name) = Chain(env)[i][name]

\* A call of set binds the name to the object in the local store, returns
\* the object, and changes no other local binding and nothing in the
\* enclosing environments
SetIsLocal ==
    pc' = "set"
        => /\ env'.outer = env.outer
           /\ DOMAIN env'.store = DOMAIN env.store \cup {src'[1]}
           /\ env'.store[src'[1]] = result'
           /\ \A name \in DOMAIN env.store \ {src'[1]} :
                 env'.store[name] = env.store[name]

\* C21: set changes only the local store of the environment it is called
\* on, never a binding of an enclosing environment; get returns the
\* innermost binding of the name along the chain of enclosing environments
\* and absent when no environment of the chain binds it.
C21_EnvironmentSetGet == [](GetIsInnermost) /\ [][SetIsLocal]_vars

\* a is bound to 1 in the enclosing environment and to 2 locally, b nowhere
C21_Witness ==
    /\ pc = "set"
    /\ env.outer # None
    /\ env.outer.store = ("a" :> ObjInteger(1))
    /\ env.store = ("a" :> ObjInteger(2))
    /\ EnvGet(env, "a") = ObjInteger(2)
    /\ EnvGet(env, "b") = None

\* C22: when parse_program on a line has left the parser's error list
\* non-empty, the program of the line is not evaluated: the step that
\* handles the line leaves the environment of the session and the last
\* evaluated result as they were, and records the line as an error.
C22_ErrorLineNotEvaluated ==
    [][(Len(trace') = Len(trace) + 1 /\ par'.errors # <<>>)
          => /\ trace'[Len(trace')] = "error"
             /\ env' = env
             /\ result' = result]_vars

\* The line `let a = 5; let = 5;` was read without newline: the program
\* holds let a = 5; the error list is not empty and a is not bound
C22_Witness ==
    /\ pc = "repl_eof"
    /\ src = SLetA \o SrcLetNoName
    /\ Len(program) = 1
    /\ par.errors # <<>>
    /\ trace = <<"error">>
    /\ env = NewEnvironment

\* The evaluator has panicked
EvalPanicked == pc = "panic" /\ ~par.abort

\* C23: for a program that parsed without parser errors eval_prog returns
\* an Object and never panics: a division by zero and a call with fewer
\* arguments than parameters yield an Error.
C23_NoEvalPanic ==
    /\ par.errors = <<>> => ~EvalPanicked
    /\ (Done /\ src \in {SrcDivZero, SrcCallTooFew}) => Type(result) = "ERROR"

\* The tokens of the statement of LetLib or ReturnLib that is the node
TokensOfNode(node) ==
    (CHOOSE st \in LetLib \cup ReturnLib : st.node = node).toks

IsLibNode(node) == \E st \in LetLib \cup ReturnLib : st.node = node

\* C24: for a source of n well-formed let statements, or of n well-formed
\* return statements, each ended by a semicolon, parse_program returns the
\* n statements in source order (the tokens of the nodes, put together in
\* the order of the Program, are the source) and the error list is empty.
\* A single let or return statement whose value is a op1 b op2 c parses to
\* one statement.
C24_LetAndReturnPrograms ==
    /\ (Parsed /\ src \in LetReturnSources)
          => /\ par.errors = <<>>
             /\ \A i \in 1..Len(program) : IsLibNode(program[i])
             /\ Concat([i \in 1..Len(program) |->
                           TokensOfNode(program[i])]) = src
    /\ \A op1 \in InfixOpToks, op2 \in InfixOpToks :
          /\ (Parsed /\ src = LetChain(op1, op2))
                => /\ par.errors = <<>>
                   /\ Len(program) = 1
                   /\ program[1].kind = "LetStatement"
          /\ (Parsed /\ src = ReturnChain(op1, op2))
                => /\ par.errors = <<>>
                   /\ Len(program) = 1
                   /\ program[1].kind = "ReturnStatement"

\* let f = fn(x) { return x; }; let c = f(a); let s = "s";   has parsed to
\* three let statements
C24_Witness ==
    /\ Parsed
    /\ src \in StatementLists(LetLib)
    /\ Len(program) = 3
    /\ program[1].name = Identifier("f")
    /\ program[2].name = Identifier("c")
    /\ program[3] = LetStatement(Identifier("s"), StringLiteral("s"))
    /\ par.errors = <<>>

\* C25: `return;` evaluates to Return(Null) and ends the evaluation of the
\* program or of the function body with the value Null: in
\* return; let z = 7;   the first statement evaluates to Return(Null), the
\* let statement is not evaluated and z is not bound; in
\* let f = fn() { return; return 1; }; return f();   the call yields Null.
C25_BareReturn ==
    /\ (src = SrcReturnBareLet /\ trace # <<>>)
          => /\ Type(trace[1]) = "RETURN_VALUE_OBJ"
             /\ IsNull(trace[1].v)
             /\ Len(trace) = 1
             /\ ~Bound("z")
    /\ (Done /\ src = SrcReturnBareInFn) => IsNull(result)


IsReturn(obj) == Type(obj) = "RETURN_VALUE_OBJ"

\* C26: during evaluation no Return object wraps another Return object:
\* the value of every evaluated statement that is a Return holds a value
\* that is not a Return, and no value bound in the environment is a Return.
C26_NoNestedReturn ==
    /\ \A i \in 1..Len(trace) :
          IsReturn(trace[i]) => ~IsReturn(trace[i].v)
    /\ \A name \in DOMAIN env.store : ~IsReturn(env.store[name])


\* The statement that the next step of eval_prog evaluates is
\* `let <name> = fn ...`
NextIsLetFunction ==
    /\ pc = "eval"
    /\ Len(trace) < Len(program)
    /\ program[Len(trace) + 1].kind = "LetStatement"
    /\ program[Len(trace) + 1].value # None
    /\ program[Len(trace) + 1].value.kind = "FunctionLiteral"

\* The function value made by a let statement of the program holds the
\* environment as it was before the statement, without the function's
\* own name
CapturesDefiningEnv ==
    (NextIsLetFunction /\ Len(trace') = Len(trace) + 1
       /\ Type(trace'[Len(trace')]) = "FUNCTION")
    => /\ trace'[Len(trace')].env = env
       /\ program[Len(trace) + 1].name.value \in DOMAIN env'.store
       /\ EnvGet(trace'[Len(trace')].env,
                 program[Len(trace) + 1].name.value)
          = EnvGet(env, program[Len(trace) + 1].name.value)

\* C27: a function value holds a copy of the environment taken when its
\* literal is evaluated. Bindings added or overwritten afterwards in the
\* defining scope are not visible in the body: the recursive call in
\* let f = fn(x) { return f(x); }; return f(1);  yields the Error
\* `identifier not found: f`, a global bound after the literal is not
\* found, and a global overwritten after the literal keeps its old value.
C27_FunctionCapturesEnv ==
    /\ [](/\ (Done /\ src = SrcSelfCall)
               => (IsError(result)
                   /\ result = ObjError("identifier not found: f"))
          /\ (Done /\ src = SrcCaptureAdded)
               => (IsError(result)
                   /\ result = ObjError("identifier not found: z"))
          /\ (Done /\ src = SrcCaptureOverwritten)
               => (Type(result) = "INTEGER_OBJ" /\ result = ObjInteger(5)))
    /\ [][CapturesDefiningEnv]_vars

C27_Witness ==
    /\ Done
    /\ src = SrcSelfCall
    /\ Len(trace) = 2
    /\ Type(trace[1]) = "FUNCTION"
    /\ Bound("f")
    /\ IsError(result)


\* name is bound to the integer n in the program's environment
BoundTo(name, n) == Bound(name) /\ IsInteger(env.store[name], n)

\* C28: the blocks of an if-expression are evaluated in the environment of
\* the if-expression itself. After
\* let c = 5; if (cond) { let c = 1; } else { let d = 2; }; c;
\* has evaluated the if-expression, the let of the block that was taken
\* is in the program's environment: c is overwritten with 1 when cond is
\* true, d is bound to 2 (and c keeps 5) when cond is false. Inside a
\* function body the let of the block is bound in the environment of the
\* call, where the rest of the body reads it, and not in the caller's.
C28_IfBlocksShareEnv ==
    /\ (src = SrcIfLet(tTRUE) /\ Len(trace) >= 2)
          => (BoundTo("c", 1) /\ ~Bound("d"))
    /\ (src = SrcIfLet(tTRUE) /\ Len(trace) >= 3)
          => IsInteger(trace[3], 1)
    /\ (src = SrcIfLet(tFALSE) /\ Len(trace) >= 2)
          => (BoundTo("c", 5) /\ BoundTo("d", 2))
    /\ (src = SrcIfLet(tFALSE) /\ Len(trace) >= 3)
          => IsInteger(trace[3], 5)
    /\ (Done /\ src = SrcIfLetInFn)
          => (IsInteger(result, 1) /\ ~Bound("c") /\ ~Bound("d"))

\* let c = 5; if (true) { let c = 1; } else { let d = 2; }; c;
\* has been evaluated and c is 1
C28_Witness ==
    /\ Done
    /\ src = SrcIfLet(tTRUE)
    /\ Len(trace) = 3
    /\ BoundTo("c", 1)
    /\ IsInteger(trace[3], 1)


\* An identifier or a literal
IsSimple(x) ==
    x.kind \in {"Identifier", "IntegerLiteral", "Boolean", "StringLiteral"}

\* A call whose callee and arguments are identifiers or literals
IsSimpleCall(x) ==
    /\ x.kind = "CallExpression"
    /\ x.func.kind # "None"
    /\ IsSimple(x.func)
    /\ x.args.kind = "Some" => \A i \in 1..Len(x.args.v) : IsSimple(x.args.v[i])

\* The statement that the next step of eval_prog evaluates is such a call,
\* as an expression statement or as the value of a return statement
NextIsSimpleCall ==
    /\ pc = "eval"
    /\ Len(trace) < Len(program)
    /\ \/ /\ program[Len(trace) + 1].kind = "ExpressionStatement"
          /\ program[Len(trace) + 1].expr.kind # "None"
          /\ IsSimpleCall(program[Len(trace) + 1].expr)
       \/ /\ program[Len(trace) + 1].kind = "ReturnStatement"
          /\ program[Len(trace) + 1].value.kind # "None"
          /\ IsSimpleCall(program[Len(trace) + 1].value)

CallKeepsEnv == NextIsSimpleCall => env' = env

\* C29: a function call whose callee and arguments are identifiers or
\* literals leaves the caller's environment unchanged: the step of
\* eval_prog that evaluates such a call, as an expression statement or in
\* a return statement, ends with the environment it started with, whatever
\* the body binds.
C29_CallKeepsCallerEnv == [][CallKeepsEnv]_vars

\* let x = 5; let f = fn(x) { let x = 2; let y = 3; return x; }; f(1); x;
\* the call has returned 2, the body's x, and the program's x is still 5
C29_Witness ==
    /\ src = SrcCallShadow
    /\ Len(trace) = 3
    /\ IsInteger(trace[3], 2)
    /\ BoundTo("x", 5)
    /\ ~Bound("y")


\* Between two calls of next_token
PositionInBounds ==
    lex.at = "idle"
        => /\ 0 <= lex.position
           /\ lex.position < Len(lex.input)
           /\ lex.read_position = lex.position + 1

\* The slice input[pos..position] that read_identifier, read_number and
\* read_string take when their loop has ended
SliceInBounds ==
    \/ /\ lex.at = "read_identifier" => IsAsciiAlphanumeric(lex.ch)
       /\ lex.at = "read_number" => IsNum(lex.ch)
       /\ lex.at = "read_string" => ~(lex.ch = Quote \/ lex.end)
    \/ lex.at \in {"idle", "tokens"}
    \/ (lex.pos <= lex.position /\ lex.position <= Len(lex.input))

\* C30: for every non-empty input no lexer operation reads or slices the
\* input outside its bounds: between the calls of next_token
\* 0 <= position < len(input) and read_position = position + 1, every
\* slice taken by read_identifier, read_number and read_string has
\* start <= end <= len(input), and no operation panics.
C30_LexerInBounds ==
    /\ lex.at # "tokens" => PositionInBounds
    /\ SliceInBounds
    /\ lex.at # "panic"

=============================================================================
